---- MODULE Spec2Model ----
(***************************************************************************)
(* A model of the tree-walking interpreter: the object system (values,    *)
(* hash keys, builtins), the environment chain and the evaluator, and the  *)
(* front end: tokens, the lexer, the Pratt parser and String() of the     *)
(* syntax tree. Source texts and lexemes are sequences of characters.     *)
(* Strings are sequences of bytes; 64-bit unsigned numbers are sequences  *)
(* of eight bytes, least significant first.                               *)
(***************************************************************************)
EXTENDS Integers, Sequences, FiniteSets, TLC

\* ------------------------------------------------------------------------
\* Bounds of the model
\* ------------------------------------------------------------------------

\* Longest program (number of top-level statements) that Init draws.
MaxStmts == 3

\* Deepest nesting of user function calls that is evaluated; a deeper call
\* ends the run as a stack overflow.
MaxCallDepth == 4

\* Most pairs of a hash literal whose range order is drawn.
MaxPairs == 2

\* Most tokens that follow the opening of a construct in the token sequences
\* the parser is given.
MaxTokens == 2

\* Most digits of the short integer lexemes the parser is given.
MaxDigits == 3

\* ------------------------------------------------------------------------
\* object: types and values (src/evaluator/builtins.go, package object)
\* ------------------------------------------------------------------------

INTEGER_OBJ == "INTEGER"
BOOLEAN_OBJ == "BOOLEAN"
STRING_OBJ == "STRING"
ARRAY_OBJ == "ARRAY"
HASH_OBJ == "HASH"
NULL_OBJ == "NULL"
RETURN_VALUE_OBJ == "RETURN_VALUE"
ERROR_OBJ == "ERROR"
FUNCTION_OBJ == "FUNCTION"
BUILTIN_OBJ == "BUILTIN"

\* The nil interface value (no object at all).
NIL == [type |-> "nil"]

\* The three singletons of the evaluator.
NULL == [type |-> NULL_OBJ]
TRUE_ == [type |-> BOOLEAN_OBJ, Bool |-> TRUE]
FALSE_ == [type |-> BOOLEAN_OBJ, Bool |-> FALSE]

Integer(n) == [type |-> INTEGER_OBJ, Value |-> n]
String(s) == [type |-> STRING_OBJ, Str |-> s]
Builtin(name) == [type |-> BUILTIN_OBJ, Name |-> name]

\* A pointer to a heap object of the given type.
Ref(t, addr) == [type |-> t, ref |-> addr]

\* The run-time panic of the host (nil dereference, index out of range,
\* integer division by zero, stack exhaustion): evaluation stops there.
Panic(reason) == [type |-> "PANIC", reason |-> reason]
IsPanic(v) == v.type = "PANIC"

\* ------------------------------------------------------------------------
\* 64-bit unsigned arithmetic on eight bytes, least significant first
\* ------------------------------------------------------------------------

Byte == 256

RECURSIVE XorBits(_, _, _)
\* Bitwise exclusive or of two numbers below 2^n.
XorBits(a, b, n) ==
    IF n = 0 THEN 0
    ELSE (((a % 2) + (b % 2)) % 2) + 2 * XorBits(a \div 2, b \div 2, n - 1)

RECURSIVE Carry(_, _, _)
\* Reduce the limbs t[i..8] to bytes, carrying upward; the carry out of the
\* eighth byte is dropped (arithmetic modulo 2^64).
Carry(t, i, c) ==
    IF i > 8 THEN <<>>
    ELSE <<(t[i] + c) % Byte>> \o Carry(t, i + 1, (t[i] + c) \div Byte)

RECURSIVE NatBytes(_, _)
\* The n low bytes of a natural number.
NatBytes(v, n) ==
    IF n = 0 THEN <<>> ELSE <<v % Byte>> \o NatBytes(v \div Byte, n - 1)

\* uint64(v) for a signed v: two's complement.
Uint64(v) ==
    IF v >= 0 THEN NatBytes(v, 8)
    ELSE LET m == NatBytes((-v) - 1, 8) IN [i \in 1..8 |-> 255 - m[i]]

\* hash/fnv: offset basis 14695981039346656037 = 0xcbf29ce484222325 and
\* prime 1099511628211 = 2^40 + 0x1b3.
FnvOffset64 == <<37, 35, 34, 132, 228, 156, 242, 203>>
FnvPrimeLow == 435
FnvPrimeShift == 5

\* h * prime modulo 2^64.
FnvMul(h) ==
    Carry([i \in 1..8 |->
              h[i] * FnvPrimeLow
              + (IF i > FnvPrimeShift THEN h[i - FnvPrimeShift] ELSE 0)], 1, 0)

RECURSIVE Fnv64aFrom(_, _, _)
Fnv64aFrom(h, s, i) ==
    IF i > Len(s) THEN h
    ELSE Fnv64aFrom(FnvMul([h EXCEPT ![1] = XorBits(h[1], s[i], 8)]), s, i + 1)

\* fnv.New64a, Write(s), Sum64.
Fnv64a(s) == Fnv64aFrom(FnvOffset64, s, 1)

\* ------------------------------------------------------------------------
\* HashKey of the hashable values
\* ------------------------------------------------------------------------

Hashable(v) == v.type \in {INTEGER_OBJ, BOOLEAN_OBJ, STRING_OBJ}

IntegerHashKey(v) == [Type |-> INTEGER_OBJ, Value |-> Uint64(v.Value)]

BooleanHashKey(v) ==
    [Type |-> BOOLEAN_OBJ,
     Value |-> IF v.Bool THEN NatBytes(1, 8) ELSE NatBytes(0, 8)]

StringHashKey(v) == [Type |-> STRING_OBJ, Value |-> Fnv64a(v.Str)]

HashKey(v) ==
    CASE v.type = INTEGER_OBJ -> IntegerHashKey(v)
      [] v.type = BOOLEAN_OBJ -> BooleanHashKey(v)
      [] v.type = STRING_OBJ -> StringHashKey(v)

\* ------------------------------------------------------------------------
\* The evaluator's memory: heap objects, slice buffers, environments
\* ------------------------------------------------------------------------
\* A memory m is a record
\*   heap  : the composite objects (Array, Hash, Function, ReturnValue, Error),
\*           a value of such a type being a pointer Ref(type, address);
\*   bufs  : the backing stores of the slices held by Array objects;
\*   envs  : the environments, each a store of bindings and an outer
\*           environment (0 for none);
\*   trace : what the evaluator did, in order;
\*   out   : what puts printed;
\*   depth : the number of user function calls in progress;
\*   order : the order in which the current statement's map ranges run.

EmptyMap == [n \in {} |-> NIL]

EmptyMemory ==
    [heap |-> <<>>, bufs |-> <<>>, envs |-> <<>>, trace |-> <<>>, out |-> <<>>,
     depth |-> 0, order |-> <<>>]

\* A result of an evaluation step: the value and the memory after it.
R(v, m) == [val |-> v, m |-> m]

Log(m, e) == [m EXCEPT !.trace = Append(@, e)]

\* The record of an operator applied to its evaluated operands.
Operate(m, operands) == Log(m, [ev |-> "operate", operands |-> operands])

\* &object.T{...}: a new heap object; the value is the pointer to it.
New(m, t, obj) ==
    R(Ref(t, Len(m.heap) + 1), [m EXCEPT !.heap = Append(@, obj)])

\* &object.Array{Elements: elems} with elems a slice over a buffer of its own
\* (make, or append to an empty slice).
NewArray(m, elems) ==
    New([m EXCEPT !.bufs = Append(@, elems)], ARRAY_OBJ,
        [kind |-> "Array", buf |-> Len(m.bufs) + 1, off |-> 0, len |-> Len(elems)])

\* arr.Elements: the slice's view of its buffer.
Elements(m, v) ==
    LET o == m.heap[v.ref] IN SubSeq(m.bufs[o.buf], o.off + 1, o.off + o.len)

\* &object.ReturnValue{Value: v}
NewReturnValue(m, v) == New(m, RETURN_VALUE_OBJ, [kind |-> "ReturnValue", Value |-> v])

\* newError: a new Error object; its message is kept as the format's kind
\* and its arguments.
newError(m, kind, name, args, n) ==
    LET r == New(m, ERROR_OBJ,
                 [kind |-> "Error",
                  Message |-> [kind |-> kind, name |-> name, args |-> args, n |-> n]])
    IN R(r.val, Log(r.m, [ev |-> "error", val |-> r.val]))

\* isError that never recognises an Error.
isErrorNever(obj) == FALSE

isError(obj) == IF obj = NIL THEN FALSE ELSE obj.type = ERROR_OBJ

nativeBoolToBooleanObject(input) == IF input THEN TRUE_ ELSE FALSE_

\* ------------------------------------------------------------------------
\* object.Environment
\* ------------------------------------------------------------------------

\* NewEnvironment / NewEnclosedEnvironment(outer): a new empty frame.
NewEnclosedEnvironment(m, outer) ==
    [env |-> Len(m.envs) + 1,
     m |-> [m EXCEPT !.envs = Append(@, [store |-> EmptyMap, outer |-> outer])]]

RECURSIVE EnvGet(_, _, _)
\* Environment.Get: the innermost binding of the name along the chain of
\* outer environments; ok is false when no frame binds it.
EnvGet(m, env, name) ==
    IF env = 0 THEN [ok |-> FALSE, val |-> NIL]
    ELSE IF name \in DOMAIN m.envs[env].store
         THEN [ok |-> TRUE, val |-> m.envs[env].store[name]]
         ELSE EnvGet(m, m.envs[env].outer, name)

\* Environment.Set: binds the name in this frame, never in an outer one.
EnvSet(m, env, name, val) ==
    Log([m EXCEPT !.envs[env].store = (name :> val) @@ @],
        [ev |-> "bind", env |-> env, name |-> name, val |-> val])

\* ------------------------------------------------------------------------
\* builtins
\* ------------------------------------------------------------------------

BuiltinNames == {"len", "first", "last", "rest", "push", "puts"}

\* The arity message: the required count is part of the format, the actual
\* count its argument.
WrongArity(m, want, args) ==
    newError(m, IF want = 1 THEN "wrong number of arguments, want 1"
                ELSE "wrong number of arguments, want 2", "", <<>>, Len(args))

builtinLen(m, args) ==
    IF Len(args) # 1 THEN WrongArity(m, 1, args)
    ELSE IF args[1] = NIL THEN R(Panic("nil dereference"), m)
    ELSE IF args[1].type = STRING_OBJ THEN R(Integer(Len(args[1].Str)), m)
    ELSE IF args[1].type = ARRAY_OBJ THEN R(Integer(m.heap[args[1].ref].len), m)
    ELSE newError(m, "unsupported argument", "len", <<args[1].type>>, 0)

builtinFirst(m, args) ==
    IF Len(args) # 1 THEN WrongArity(m, 1, args)
    ELSE IF args[1] = NIL THEN R(Panic("nil dereference"), m)
    ELSE IF args[1].type # ARRAY_OBJ
         THEN newError(m, "unsupported argument", "first", <<args[1].type>>, 0)
    ELSE LET arr == Elements(m, args[1])
         IN IF Len(arr) > 0 THEN R(arr[1], m) ELSE R(NULL, m)

builtinLast(m, args) ==
    IF Len(args) # 1 THEN WrongArity(m, 1, args)
    ELSE IF args[1] = NIL THEN R(Panic("nil dereference"), m)
    ELSE IF args[1].type # ARRAY_OBJ
         THEN newError(m, "unsupported argument", "first", <<args[1].type>>, 0)
    ELSE LET arr == Elements(m, args[1])
             length == Len(arr)
         IN IF length > 0 THEN R(arr[length], m) ELSE R(NULL, m)

builtinRest(m, args) ==
    IF Len(args) # 1 THEN WrongArity(m, 1, args)
    ELSE IF args[1] = NIL THEN R(Panic("nil dereference"), m)
    ELSE IF args[1].type # ARRAY_OBJ
         THEN newError(m, "unsupported argument", "first", <<args[1].type>>, 0)
    ELSE LET arr == Elements(m, args[1])
             length == Len(arr)
         IN IF length > 0
            THEN \* make(length-1); copy(newElements, arr.Elements[1:])
                 NewArray(m, SubSeq(arr, 2, length))
            ELSE R(NULL, m)

\* push that appends to the argument's own buffer and returns the argument.
builtinPushInPlace(m, args) ==
    IF Len(args) # 2 THEN WrongArity(m, 2, args)
    ELSE IF args[1] = NIL THEN R(Panic("nil dereference"), m)
    ELSE IF args[1].type # ARRAY_OBJ
         THEN newError(m, "unsupported argument", "first", <<args[1].type>>, 0)
    ELSE LET o == m.heap[args[1].ref]
         IN R(args[1],
              [m EXCEPT !.bufs[o.buf] = Append(SubSeq(@, 1, o.off + o.len), args[2]),
                        !.heap[args[1].ref].len = @ + 1])

builtinPush(m, args) ==
    IF Len(args) # 2 THEN WrongArity(m, 2, args)
    ELSE IF args[1] = NIL THEN R(Panic("nil dereference"), m)
    ELSE IF args[1].type # ARRAY_OBJ
         THEN newError(m, "unsupported argument", "first", <<args[1].type>>, 0)
    ELSE LET arr == Elements(m, args[1])
         IN \* make(length+1); copy(newElements, arr.Elements); newElements[length] = x
            NewArray(m, Append(arr, args[2]))

RECURSIVE InspectPanics(_, _)
\* Whether Inspect dereferences nil: on the nil value itself, on a nil element
\* of an array, a nil value of a hash pair or a ReturnValue holding nil.
InspectPanics(m, v) ==
    IF v = NIL THEN TRUE
    ELSE IF v.type = ARRAY_OBJ
         THEN \E i \in 1..Len(Elements(m, v)) : InspectPanics(m, Elements(m, v)[i])
    ELSE IF v.type = HASH_OBJ
         THEN LET ps == m.heap[v.ref].Pairs
              IN \E k \in DOMAIN ps :
                    InspectPanics(m, ps[k].Key) \/ InspectPanics(m, ps[k].Value)
    ELSE IF v.type = RETURN_VALUE_OBJ THEN InspectPanics(m, m.heap[v.ref].Value)
    ELSE FALSE

RECURSIVE builtinPutsFrom(_, _, _)
builtinPutsFrom(m, args, i) ==
    IF i > Len(args) THEN R(NULL, m)
    ELSE IF InspectPanics(m, args[i]) THEN R(Panic("nil dereference"), m)
    ELSE builtinPutsFrom([m EXCEPT !.out = Append(@, args[i])], args, i + 1)

\* puts: prints each argument's Inspect() (recorded here as the value printed).
builtinPuts(m, args) == builtinPutsFrom(m, args, 1)

\* fn.Fn(args...)
CallBuiltin(m, name, args) ==
    CASE name = "len" -> builtinLen(m, args)
      [] name = "first" -> builtinFirst(m, args)
      [] name = "last" -> builtinLast(m, args)
      [] name = "rest" -> builtinRest(m, args)
      [] name = "push" -> builtinPush(m, args)
      [] name = "puts" -> builtinPuts(m, args)

\* ------------------------------------------------------------------------
\* ast: the nodes of a program
\* ------------------------------------------------------------------------

NoNode == [node |-> "nil"]

LetStatement(name, value) == [node |-> "LetStatement", Name |-> name, Value |-> value]
ReturnStatement(value) == [node |-> "ReturnStatement", ReturnValue |-> value]
ExpressionStatement(e) == [node |-> "ExpressionStatement", Expression |-> e]
BlockStatement(stmts) == [node |-> "BlockStatement", Statements |-> stmts]
Identifier(name) == [node |-> "Identifier", Value |-> name]
IntegerLiteral(n) == [node |-> "IntegerLiteral", Value |-> n]
StringLiteral(s) == [node |-> "StringLiteral", Value |-> s]
BooleanLiteral(b) == [node |-> "Boolean", Value |-> b]
PrefixExpression(op, right) ==
    [node |-> "PrefixExpression", Operator |-> op, Right |-> right]
InfixExpression(left, op, right) ==
    [node |-> "InfixExpression", Left |-> left, Operator |-> op, Right |-> right]
IfExpression(cond, cons, alt) ==
    [node |-> "IfExpression", Condition |-> cond, Consequence |-> cons,
     Alternative |-> alt]
FunctionLiteral(params, body) ==
    [node |-> "FunctionLiteral", Parameters |-> params, Body |-> body]
CallExpression(fn, args) ==
    [node |-> "CallExpression", Function |-> fn, Arguments |-> args]
ArrayLiteral(elems) == [node |-> "ArrayLiteral", Elements |-> elems]
IndexExpression(left, index) ==
    [node |-> "IndexExpression", Left |-> left, Index |-> index]
\* The pairs are kept in source order; the parser stores them in a map keyed
\* by the key node, which has no order.
HashLiteral(pairs) == [node |-> "HashLiteral", Pairs |-> pairs]

StatementNodes == {"LetStatement", "ReturnStatement", "ExpressionStatement"}

\* ------------------------------------------------------------------------
\* The evaluator
\* ------------------------------------------------------------------------

\* Go's integer division truncates toward zero.
Quo(a, b) ==
    LET abs(x) == IF x < 0 THEN -x ELSE x
        q == abs(a) \div abs(b)
    IN IF (a < 0) = (b < 0) THEN q ELSE -q

isTruthy(obj) ==
    IF obj = NULL THEN FALSE
    ELSE IF obj = TRUE_ THEN TRUE
    ELSE IF obj = FALSE_ THEN FALSE
    ELSE TRUE

evalBongOperatorExpression(right) ==
    IF right = TRUE_ THEN FALSE_
    ELSE IF right = FALSE_ THEN TRUE_
    ELSE IF right = NULL THEN TRUE_
    ELSE FALSE_

evalMinusPrefixOperatorExpression(m, right) ==
    IF right = NIL THEN R(Panic("nil dereference"), m)
    ELSE IF right.type # INTEGER_OBJ
         THEN newError(m, "unknown operator", "-", <<right.type>>, 0)
    ELSE R(Integer(-right.Value), m)

evalPrefixExpression(m, operator, right) ==
    IF operator = "!" THEN R(evalBongOperatorExpression(right), m)
    ELSE IF operator = "-" THEN evalMinusPrefixOperatorExpression(m, right)
    ELSE IF right = NIL THEN R(Panic("nil dereference"), m)
    ELSE newError(m, "unknown operator", operator, <<right.type>>, 0)

\* The integers of the pools' programs stay far from the limits of int64, so
\* the arithmetic is that of the integers.
evalIntegerInfixExpression(m, operator, left, right) ==
    LET leftVal == left.Value
        rightVal == right.Value
    IN CASE operator = "+" -> R(Integer(leftVal + rightVal), m)
         [] operator = "-" -> R(Integer(leftVal - rightVal), m)
         [] operator = "*" -> R(Integer(leftVal * rightVal), m)
         [] operator = "/" ->
                IF rightVal = 0 THEN R(Panic("integer divide by zero"), m)
                ELSE R(Integer(Quo(leftVal, rightVal)), m)
         [] operator = ">" -> R(nativeBoolToBooleanObject(leftVal > rightVal), m)
         [] operator = "<" -> R(nativeBoolToBooleanObject(leftVal < rightVal), m)
         [] operator = "==" -> R(nativeBoolToBooleanObject(leftVal = rightVal), m)
         [] operator = "!=" -> R(nativeBoolToBooleanObject(leftVal # rightVal), m)
         [] OTHER -> newError(m, "unknown operator", operator,
                              <<left.type, right.type>>, 0)

evalStringInfixExpression(m, operator, left, right) ==
    IF operator # "+"
    THEN newError(m, "unknown operator", operator, <<left.type, right.type>>, 0)
    ELSE R(String(left.Str \o right.Str), m)

\* The cases are tried in order; each left.Type() or right.Type() that a case
\* reaches dereferences its operand.
evalInfixExpression(m, operator, left, right) ==
    IF left = NIL THEN R(Panic("nil dereference"), m)
    ELSE IF left.type = INTEGER_OBJ /\ right = NIL THEN R(Panic("nil dereference"), m)
    ELSE IF left.type = INTEGER_OBJ /\ right.type = INTEGER_OBJ
         THEN evalIntegerInfixExpression(m, operator, left, right)
    ELSE IF left.type = STRING_OBJ /\ right = NIL THEN R(Panic("nil dereference"), m)
    ELSE IF left.type = STRING_OBJ /\ right.type = STRING_OBJ
         THEN evalStringInfixExpression(m, operator, left, right)
    ELSE IF operator = "==" THEN R(nativeBoolToBooleanObject(left = right), m)
    ELSE IF operator = "!=" THEN R(nativeBoolToBooleanObject(left # right), m)
    ELSE IF right = NIL THEN R(Panic("nil dereference"), m)
    ELSE IF left.type # right.type
         THEN newError(m, "type mismatch", operator, <<left.type, right.type>>, 0)
    ELSE newError(m, "unknown operator", operator, <<left.type, right.type>>, 0)

evalArrayIndexExpression(m, array, index) ==
    LET elems == Elements(m, array)
        idx == index.Value
        max == Len(elems) - 1
    IN IF idx < 0 \/ idx > max THEN R(NULL, m) ELSE R(elems[idx + 1], m)

evalHashIndexExpression(m, hash, index) ==
    IF index = NIL THEN R(Panic("nil dereference"), m)
    ELSE IF ~Hashable(index)
         THEN newError(m, "unusable as hash key", "", <<index.type>>, 0)
    ELSE LET pairs == m.heap[hash.ref].Pairs
             m1 == Log(m, [ev |-> "hashKey", of |-> index, key |-> HashKey(index)])
             val == IF HashKey(index) \in DOMAIN pairs
                    THEN pairs[HashKey(index)].Value
                    ELSE NULL
         IN R(val, Log(m1, [ev |-> "lookup", hash |-> hash, index |-> index,
                            val |-> val]))

evalIndexExpression(m, left, index) ==
    IF left = NIL THEN R(Panic("nil dereference"), m)
    ELSE IF left.type = ARRAY_OBJ /\ index = NIL THEN R(Panic("nil dereference"), m)
    ELSE IF left.type = ARRAY_OBJ /\ index.type = INTEGER_OBJ
         THEN evalArrayIndexExpression(m, left, index)
    ELSE IF left.type = HASH_OBJ THEN evalHashIndexExpression(m, left, index)
    ELSE newError(m, "index operator not supported", "", <<left.type>>, 0)

evalIdentifier(m, node, env) ==
    LET got == EnvGet(m, env, node.Value)
    IN IF got.ok THEN R(got.val, m)
       ELSE IF node.Value \in BuiltinNames THEN R(Builtin(node.Value), m)
       ELSE newError(m, "identifier not found", node.Value, <<>>, 0)

unwrapReturnValue(m, obj) ==
    IF obj # NIL /\ obj.type = RETURN_VALUE_OBJ THEN m.heap[obj.ref].Value ELSE obj

\* The order in which a range over a map of n entries visits them is not
\* fixed: m.order is a permutation of 1..MaxPairs, and a literal of n pairs
\* is visited in the order its pairs' numbers have in it.
RangeOrder(m, n) == SelectSeq(m.order, LAMBDA i : i <= n)

\* for paramIdx, param := range fn.Parameters { env.Set(param, args[paramIdx]) }
RECURSIVE BindParameters(_, _, _, _, _)
BindParameters(m, env, params, args, i) ==
    IF i > Len(params) THEN R(NIL, m)
    ELSE IF i > Len(args) THEN R(Panic("index out of range"), m)
    ELSE BindParameters(EnvSet(m, env, params[i], args[i]), env, params, args, i + 1)

\* extendFunctionEnv that binds the parameters in the captured environment
\* itself instead of a new frame enclosing it.
extendFunctionEnvNoFrame(m, fn, args) ==
    LET fo == m.heap[fn.ref]
        b == BindParameters(m, fo.Env, fo.Parameters, args, 1)
    IN [env |-> fo.Env, val |-> b.val, m |-> b.m]

extendFunctionEnv(m, fn, args) ==
    LET fo == m.heap[fn.ref]
        e == NewEnclosedEnvironment(m, fo.Env)
        b == BindParameters(e.m, e.env, fo.Parameters, args, 1)
    IN [env |-> e.env, val |-> b.val, m |-> b.m]

\* A Function that captures a copy of the current frame.
NewFunctionSnapshot(m, node, env) ==
    New([m EXCEPT !.envs = Append(@, m.envs[env])], FUNCTION_OBJ,
        [kind |-> "Function", Parameters |-> node.Parameters, Body |-> node.Body,
         Env |-> Len(m.envs) + 1])

\* &object.Function{Parameters: params, Body: body, Env: env}
NewFunction(m, node, env) ==
    New(m, FUNCTION_OBJ,
        [kind |-> "Function", Parameters |-> node.Parameters, Body |-> node.Body,
         Env |-> env])

RECURSIVE Eval(_, _, _)
RECURSIVE EvalNode(_, _, _)
RECURSIVE evalBlockStatementFrom(_, _, _, _, _)
RECURSIVE evalExpressionsFrom(_, _, _, _, _)
RECURSIVE evalHashLiteralFrom(_, _, _, _, _, _)
RECURSIVE evalIfExpression(_, _, _)
RECURSIVE applyFunction(_, _, _)

\* for _, stmt := range block.Statements: the statements from the i-th on,
\* result being the value of the one before.
evalBlockStatementFrom(m, block, env, i, result) ==
    IF i > Len(block.Statements) THEN R(result, m)
    ELSE LET r == Eval(block.Statements[i], env, m)
         IN IF IsPanic(r.val) THEN r
            ELSE IF r.val # NIL /\ r.val.type \in {RETURN_VALUE_OBJ, ERROR_OBJ} THEN r
            ELSE evalBlockStatementFrom(r.m, block, env, i + 1, r.val)

\* evalBlockStatement that evaluates the block in a frame of its own.
evalBlockStatementScoped(m, block, env) ==
    LET frame == NewEnclosedEnvironment(m, env)
    IN evalBlockStatementFrom(frame.m, block, frame.env, 1, NIL)

evalBlockStatement(m, block, env) == evalBlockStatementFrom(m, block, env, 1, NIL)

\* evalExpressions: val is the slice of the values, or the single Error.
evalExpressionsFrom(m, exps, env, i, result) ==
    IF i > Len(exps) THEN R(result, m)
    ELSE LET r == Eval(exps[i], env, m)
         IN IF IsPanic(r.val) THEN R(<<r.val>>, r.m)
            ELSE IF isError(r.val) THEN R(<<r.val>>, r.m)
            ELSE evalExpressionsFrom(r.m, exps, env, i + 1, Append(result, r.val))

evalExpressions(m, exps, env) == evalExpressionsFrom(m, exps, env, 1, <<>>)

\* for keyNode, valueNode := range node.Pairs: the pairs from the i-th of the
\* range order on, pairs being the map built so far.
evalHashLiteralFrom(m, node, env, order, i, pairs) ==
    IF i > Len(order) THEN New(m, HASH_OBJ, [kind |-> "Hash", Pairs |-> pairs])
    ELSE LET keyNode == node.Pairs[order[i]][1]
             valueNode == node.Pairs[order[i]][2]
             k == Eval(keyNode, env, m)
         IN IF IsPanic(k.val) \/ isError(k.val) THEN k
            ELSE IF k.val = NIL THEN R(Panic("nil dereference"), k.m)
            ELSE IF ~Hashable(k.val)
                 THEN newError(k.m, "unusable as hash key", "", <<k.val.type>>, 0)
            ELSE LET v == Eval(valueNode, env, k.m)
                 IN IF IsPanic(v.val) \/ isError(v.val) THEN v
                    ELSE evalHashLiteralFrom(
                             Log(v.m, [ev |-> "hashKey", of |-> k.val,
                                       key |-> HashKey(k.val)]),
                             node, env, order, i + 1,
                             (HashKey(k.val) :> [Key |-> k.val, Value |-> v.val])
                                 @@ pairs)

evalHashLiteral(m, node, env) ==
    evalHashLiteralFrom(m, node, env, RangeOrder(m, Len(node.Pairs)), 1, EmptyMap)

evalIfExpression(m, ie, env) ==
    LET c == Eval(ie.Condition, env, m)
    IN IF IsPanic(c.val) \/ isError(c.val) THEN c
       ELSE IF isTruthy(c.val) THEN Eval(ie.Consequence, env, c.m)
       ELSE IF ie.Alternative # NoNode THEN Eval(ie.Alternative, env, c.m)
       ELSE R(NULL, c.m)

applyFunction(m, fn, args) ==
    IF fn = NIL THEN R(Panic("nil dereference"), m)
    ELSE IF fn.type = FUNCTION_OBJ
         THEN IF m.depth >= MaxCallDepth THEN R(Panic("stack overflow"), m)
              ELSE LET x == extendFunctionEnv(m, fn, args)
                       m1 == Log([x.m EXCEPT !.depth = @ + 1],
                                 [ev |-> "apply", fn |-> fn, env |-> x.env,
                                  envs |-> Len(m.envs)])
                       r == Eval(m.heap[fn.ref].Body, x.env, m1)
                   IN IF IsPanic(x.val) THEN R(x.val, x.m)
                      ELSE IF IsPanic(r.val) THEN r
                      ELSE R(unwrapReturnValue(r.m, r.val),
                             Log([r.m EXCEPT !.depth = @ - 1],
                                 [ev |-> "result", env |-> x.env,
                                  val |-> unwrapReturnValue(r.m, r.val)]))
    ELSE IF fn.type = BUILTIN_OBJ
         THEN LET r == CallBuiltin(m, fn.Name, args)
              IN R(r.val, Log(r.m, [ev |-> "builtin", name |-> fn.Name,
                                    args |-> args, val |-> r.val]))
    ELSE newError(m, "not a function", "", <<fn.type>>, 0)

\* The switch of Eval on the node's type.
EvalNode(node, env, m) ==
    CASE node.node = "ExpressionStatement" -> Eval(node.Expression, env, m)
      [] node.node = "LetStatement" ->
            LET v == Eval(node.Value, env, m)
            IN IF IsPanic(v.val) \/ isError(v.val) THEN v
               ELSE R(NIL, EnvSet(v.m, env, node.Name, v.val))
      [] node.node = "PrefixExpression" ->
            LET right == Eval(node.Right, env, m)
            IN IF IsPanic(right.val) \/ isError(right.val) THEN right
               ELSE evalPrefixExpression(Operate(right.m, <<right.val>>), node.Operator,
                                          right.val)
      [] node.node = "InfixExpression" ->
            LET left == Eval(node.Left, env, m)
                right == Eval(node.Right, env, left.m)
            IN IF IsPanic(left.val) \/ isError(left.val) THEN left
               ELSE IF IsPanic(right.val) \/ isError(right.val) THEN right
               ELSE evalInfixExpression(Operate(right.m, <<left.val, right.val>>),
                                         node.Operator, left.val, right.val)
      [] node.node = "BlockStatement" -> evalBlockStatement(m, node, env)
      [] node.node = "IfExpression" -> evalIfExpression(m, node, env)
      [] node.node = "ReturnStatement" ->
            LET v == Eval(node.ReturnValue, env, m)
            IN IF IsPanic(v.val) \/ isError(v.val) THEN v
               ELSE NewReturnValue(
                        Log(v.m, [ev |-> "return", env |-> env, val |-> v.val]),
                        v.val)
      [] node.node = "IntegerLiteral" -> R(Integer(node.Value), m)
      [] node.node = "StringLiteral" -> R(String(node.Value), m)
      [] node.node = "Boolean" -> R(nativeBoolToBooleanObject(node.Value), m)
      [] node.node = "Identifier" -> evalIdentifier(m, node, env)
      [] node.node = "ArrayLiteral" ->
            LET elements == evalExpressions(m, node.Elements, env)
            IN IF Len(elements.val) = 1
                  /\ (IsPanic(elements.val[1]) \/ isError(elements.val[1]))
               THEN R(elements.val[1], elements.m)
               ELSE NewArray(elements.m, elements.val)
      [] node.node = "IndexExpression" ->
            LET left == Eval(node.Left, env, m)
                index == Eval(node.Index, env, left.m)
            IN IF IsPanic(left.val) \/ isError(left.val) THEN left
               ELSE IF IsPanic(index.val) \/ isError(index.val) THEN index
               ELSE evalIndexExpression(Operate(index.m, <<left.val, index.val>>),
                                         left.val, index.val)
      [] node.node = "HashLiteral" -> evalHashLiteral(m, node, env)
      [] node.node = "FunctionLiteral" -> NewFunction(m, node, env)
      [] node.node = "CallExpression" ->
            LET function == Eval(node.Function, env, m)
                args == evalExpressions(function.m, node.Arguments, env)
            IN IF IsPanic(function.val) \/ isError(function.val) THEN function
               ELSE IF Len(args.val) = 1
                       /\ (IsPanic(args.val[1]) \/ isError(args.val[1]))
               THEN R(args.val[1], args.m)
               ELSE applyFunction(args.m, function.val, args.val)
      [] OTHER -> R(NIL, m)

\* Eval(node, env): the switch, with the entry and the result recorded.
Eval(node, env, m) ==
    LET r == EvalNode(node, env,
                      Log(m, [ev |-> "enter", kind |-> node.node, env |-> env]))
    IN R(r.val, Log(r.m, [ev |-> "exit", kind |-> node.node, env |-> env,
                          val |-> r.val]))

\* ------------------------------------------------------------------------
\* Programs
\* ------------------------------------------------------------------------
\* A program is a sequence of statements drawn from a pool; a run names its
\* pool and the statements' numbers in it.

\* if (true) { return n }
ReturnInIf(n) ==
    IfExpression(BooleanLiteral(TRUE),
                 BlockStatement(<<ReturnStatement(IntegerLiteral(n))>>), NoNode)

\* fn() {}()
EmptyCall == CallExpression(FunctionLiteral(<<>>, BlockStatement(<<>>)), <<>>)

\* puts(n)
Puts(n) == CallExpression(Identifier("puts"), <<IntegerLiteral(n)>>)

\* fn(a) { if (a) { return a }; let w = a + true; w }
GuardFn ==
    FunctionLiteral(
        <<"a">>,
        BlockStatement(<<
            ExpressionStatement(
                IfExpression(Identifier("a"),
                             BlockStatement(<<ReturnStatement(Identifier("a"))>>),
                             NoNode)),
            LetStatement("w", InfixExpression(Identifier("a"), "+",
                                              BooleanLiteral(TRUE))),
            ExpressionStatement(Identifier("w"))>>))

ControlPool == <<
    \* 1: let x = 1;
    LetStatement("x", IntegerLiteral(1)),
    \* 2: let y = if (true) { return 1 };
    LetStatement("y", ReturnInIf(1)),
    \* 3: return if (true) { return 2 };
    ReturnStatement(ReturnInIf(2)),
    \* 4: if (x > 0) { if (true) { return 10; } return 1; }
    ExpressionStatement(
        IfExpression(InfixExpression(Identifier("x"), ">", IntegerLiteral(0)),
                     BlockStatement(<<ExpressionStatement(ReturnInIf(10)),
                                      ReturnStatement(IntegerLiteral(1))>>),
                     NoNode)),
    \* 5: !(5 + true);
    ExpressionStatement(
        PrefixExpression("!", InfixExpression(IntegerLiteral(5), "+",
                                              BooleanLiteral(TRUE)))),
    \* 6: [x, z(puts(1)), puts(2)];
    ExpressionStatement(
        ArrayLiteral(<<Identifier("x"),
                       CallExpression(Identifier("z"), <<Puts(1)>>),
                       Puts(2)>>)),
    \* 7: -fn() {}();
    ExpressionStatement(PrefixExpression("-", EmptyCall)),
    \* 8: fn(a) { ... }(x);
    ExpressionStatement(CallExpression(GuardFn, <<Identifier("x")>>)),
    \* 9: fn(a) { ... }(false);
    ExpressionStatement(CallExpression(GuardFn, <<BooleanLiteral(FALSE)>>)),
    \* 10: return [1][{1: z, 2: puts(3)}];
    ReturnStatement(
        IndexExpression(ArrayLiteral(<<IntegerLiteral(1)>>),
                        HashLiteral(<<<<IntegerLiteral(1), Identifier("z")>>,
                                      <<IntegerLiteral(2), Puts(3)>>>>)))
>>

\* fn(y) { x + y }
AddX ==
    FunctionLiteral(
        <<"y">>,
        BlockStatement(<<ExpressionStatement(
            InfixExpression(Identifier("x"), "+", Identifier("y")))>>))

ClosurePool == <<
    \* 1: let x = 1;
    LetStatement("x", IntegerLiteral(1)),
    \* 2: let f = fn(y) { x + y };
    LetStatement("f", AddX),
    \* 3: let x = 10;
    LetStatement("x", IntegerLiteral(10)),
    \* 4: return f(2);
    ReturnStatement(CallExpression(Identifier("f"), <<IntegerLiteral(2)>>)),
    \* 5: fn(x) { f(1, 2) }(50);
    ExpressionStatement(
        CallExpression(
            FunctionLiteral(
                <<"x">>,
                BlockStatement(<<ExpressionStatement(
                    CallExpression(Identifier("f"),
                                   <<IntegerLiteral(1), IntegerLiteral(2)>>))>>)),
            <<IntegerLiteral(50)>>)),
    \* 6: let newAdder = fn(x) { fn(y) { x + y } };
    LetStatement("newAdder",
                 FunctionLiteral(<<"x">>,
                                 BlockStatement(<<ExpressionStatement(AddX)>>))),
    \* 7: let f = newAdder(2);
    LetStatement("f", CallExpression(Identifier("newAdder"), <<IntegerLiteral(2)>>)),
    \* 8: f();
    ExpressionStatement(CallExpression(Identifier("f"), <<>>)),
    \* 9: let h = fn(n) { if (n > 0) { h(n - 1) } else { 0 } };
    LetStatement(
        "h",
        FunctionLiteral(
            <<"n">>,
            BlockStatement(<<ExpressionStatement(
                IfExpression(
                    InfixExpression(Identifier("n"), ">", IntegerLiteral(0)),
                    BlockStatement(<<ExpressionStatement(
                        CallExpression(
                            Identifier("h"),
                            <<InfixExpression(Identifier("n"), "-",
                                              IntegerLiteral(1))>>))>>),
                    BlockStatement(<<ExpressionStatement(IntegerLiteral(0))>>)))>>))),
    \* 10: h(2);
    ExpressionStatement(CallExpression(Identifier("h"), <<IntegerLiteral(2)>>)),
    \* 11: let f = fn(y) { f(y) };
    LetStatement(
        "f",
        FunctionLiteral(
            <<"y">>,
            BlockStatement(<<ExpressionStatement(
                CallExpression(Identifier("f"), <<Identifier("y")>>))>>)))
>>

\* Two strings with the same 64-bit FNV-1a hash, 0x76294aa957b714af:
\* "D7W6y2qnApa" and "6-Y9QrdOJra".
KeyD7 == <<68, 55, 87, 54, 121, 50, 113, 110, 65, 112, 97>>
Key6Y == <<54, 45, 89, 57, 81, 114, 100, 79, 74, 114, 97>>

HashPool == <<
    \* 1: {1: 10, 1: 20}[1];
    ExpressionStatement(
        IndexExpression(
            HashLiteral(<<<<IntegerLiteral(1), IntegerLiteral(10)>>,
                          <<IntegerLiteral(1), IntegerLiteral(20)>>>>),
            IntegerLiteral(1))),
    \* 2: let h = {"D7W6y2qnApa": 1, true: 2};
    LetStatement("h", HashLiteral(<<<<StringLiteral(KeyD7), IntegerLiteral(1)>>,
                                    <<BooleanLiteral(TRUE), IntegerLiteral(2)>>>>)),
    \* 3: return h["6-Y9QrdOJra"];
    ReturnStatement(IndexExpression(Identifier("h"), StringLiteral(Key6Y))),
    \* 4: h[1];
    ExpressionStatement(IndexExpression(Identifier("h"), IntegerLiteral(1))),
    \* 5: h["D7W6y2qnApa"];
    ExpressionStatement(IndexExpression(Identifier("h"), StringLiteral(KeyD7))),
    \* 6: {a: 1, b: 2};
    ExpressionStatement(
        HashLiteral(<<<<Identifier("a"), IntegerLiteral(1)>>,
                      <<Identifier("b"), IntegerLiteral(2)>>>>)),
    \* 7: {fn() {}(): 1};
    ExpressionStatement(HashLiteral(<<<<EmptyCall, IntegerLiteral(1)>>>>))
>>

\* name(args)
CallNamed(name, args) == CallExpression(Identifier(name), args)

ArrayPool == <<
    \* 1: let a = [1, 2];
    LetStatement("a", ArrayLiteral(<<IntegerLiteral(1), IntegerLiteral(2)>>)),
    \* 2: let b = push(a, 3);
    LetStatement("b", CallNamed("push", <<Identifier("a"), IntegerLiteral(3)>>)),
    \* 3: let a = rest(a);
    LetStatement("a", CallNamed("rest", <<Identifier("a")>>)),
    \* 4: let a = push(b, a);
    LetStatement("a", CallNamed("push", <<Identifier("b"), Identifier("a")>>)),
    \* 5: let b = rest(b);
    LetStatement("b", CallNamed("rest", <<Identifier("b")>>)),
    \* 6: let a = [];
    LetStatement("a", ArrayLiteral(<<>>)),
    \* 7: return push(rest(a), 5);
    ReturnStatement(
        CallNamed("push", <<CallNamed("rest", <<Identifier("a")>>),
                            IntegerLiteral(5)>>)),
    \* 8: push(fn() {}(), 1);
    ExpressionStatement(CallNamed("push", <<EmptyCall, IntegerLiteral(1)>>))
>>

\* Calls of the builtins with the wrong number of arguments, with a first
\* argument of an unsupported type, and as they are meant.
BuiltinPool == <<
    \* 1: len();
    ExpressionStatement(CallNamed("len", <<>>)),
    \* 2: len(1);
    ExpressionStatement(CallNamed("len", <<IntegerLiteral(1)>>)),
    \* 3: first(1);
    ExpressionStatement(CallNamed("first", <<IntegerLiteral(1)>>)),
    \* 4: first([1], 2);
    ExpressionStatement(
        CallNamed("first", <<ArrayLiteral(<<IntegerLiteral(1)>>), IntegerLiteral(2)>>)),
    \* 5: last("s");
    ExpressionStatement(CallNamed("last", <<StringLiteral(<<115>>)>>)),
    \* 6: last();
    ExpressionStatement(CallNamed("last", <<>>)),
    \* 7: rest(true);
    ExpressionStatement(CallNamed("rest", <<BooleanLiteral(TRUE)>>)),
    \* 8: rest([1], [2]);
    ExpressionStatement(
        CallNamed("rest", <<ArrayLiteral(<<IntegerLiteral(1)>>),
                            ArrayLiteral(<<IntegerLiteral(2)>>)>>)),
    \* 9: push(1, 2);
    ExpressionStatement(CallNamed("push", <<IntegerLiteral(1), IntegerLiteral(2)>>)),
    \* 10: push([1]);
    ExpressionStatement(CallNamed("push", <<ArrayLiteral(<<IntegerLiteral(1)>>)>>)),
    \* 11: len("ab");
    ExpressionStatement(CallNamed("len", <<StringLiteral(<<97, 98>>)>>)),
    \* 12: return last([1, 2]);
    ReturnStatement(
        CallNamed("last", <<ArrayLiteral(<<IntegerLiteral(1), IntegerLiteral(2)>>)>>)),
    \* 13: len(fn() {}());
    ExpressionStatement(CallNamed("len", <<EmptyCall>>))
>>

\* The operands of the infix expressions of InfixPool: 5, true, false, "s",
\* [1], a, fn() {}, if (false) { 1 } and fn() {}().
InfixOperands == <<
    IntegerLiteral(5),
    BooleanLiteral(TRUE),
    BooleanLiteral(FALSE),
    StringLiteral(<<115>>),
    ArrayLiteral(<<IntegerLiteral(1)>>),
    Identifier("a"),
    FunctionLiteral(<<>>, BlockStatement(<<>>)),
    IfExpression(BooleanLiteral(FALSE),
                 BlockStatement(<<ExpressionStatement(IntegerLiteral(1))>>), NoNode),
    EmptyCall
>>

InfixOperators == <<"==", "!=", "+", "-", "*", "/", "<", ">">>

\* 1: let a = [1];  2: return a == a;  and from 3 on: x op y; for the
\* operands x and y and the operators op.
InfixPool ==
    LET n == Len(InfixOperands)
        k == Len(InfixOperators)
    IN <<LetStatement("a", ArrayLiteral(<<IntegerLiteral(1)>>)),
         ReturnStatement(InfixExpression(Identifier("a"), "==", Identifier("a")))>>
       \o [i \in 1..(n * n * k) |->
              ExpressionStatement(
                  InfixExpression(InfixOperands[((i - 1) \div (n * k)) + 1],
                                  InfixOperators[((i - 1) % k) + 1],
                                  InfixOperands[(((i - 1) \div k) % n) + 1]))]

ScopePool == <<
    \* 1: if (true) { let x = 1; }
    ExpressionStatement(
        IfExpression(BooleanLiteral(TRUE),
                     BlockStatement(<<LetStatement("x", IntegerLiteral(1))>>),
                     NoNode)),
    \* 2: x;
    ExpressionStatement(Identifier("x")),
    \* 3: let f = fn() { let x = 2; if (true) { let y = x; } y };
    LetStatement(
        "f",
        FunctionLiteral(
            <<>>,
            BlockStatement(<<
                LetStatement("x", IntegerLiteral(2)),
                ExpressionStatement(
                    IfExpression(BooleanLiteral(TRUE),
                                 BlockStatement(<<LetStatement("y", Identifier("x"))>>),
                                 NoNode)),
                ExpressionStatement(Identifier("y"))>>))),
    \* 4: f();
    ExpressionStatement(CallExpression(Identifier("f"), <<>>)),
    \* 5: if (false) { 1 } else { let y = 3; }
    ExpressionStatement(
        IfExpression(BooleanLiteral(FALSE),
                     BlockStatement(<<ExpressionStatement(IntegerLiteral(1))>>),
                     BlockStatement(<<LetStatement("y", IntegerLiteral(3))>>))),
    \* 6: return y;
    ReturnStatement(Identifier("y")),
    \* 7: let x = 5;
    LetStatement("x", IntegerLiteral(5)),
    \* 8: -if (true) { let z = 1; };
    ExpressionStatement(
        PrefixExpression(
            "-",
            IfExpression(BooleanLiteral(TRUE),
                         BlockStatement(<<LetStatement("z", IntegerLiteral(1))>>),
                         NoNode)))
>>

Pool(p) ==
    CASE p = "control" -> ControlPool
      [] p = "closure" -> ClosurePool
      [] p = "hash" -> HashPool
      [] p = "array" -> ArrayPool
      [] p = "builtin" -> BuiltinPool
      [] p = "infix" -> InfixPool
      [] p = "scope" -> ScopePool

\* ------------------------------------------------------------------------
\* token: the tokens the lexer hands to the parser
\* ------------------------------------------------------------------------

\* Source text, lexemes and the output of String() are sequences of
\* characters, each a string of length one.

ILLEGAL == "ILLEGAL"
EOF == "EOF"
IDENT == "IDENT"
INT == "INT"
tokSTRING == "STRING"
ASSIGN == "="
PLUS == "+"
MINUS == "-"
ASTERISK == "*"
SLASH == "/"
BANG == "!"
LT == "<"
GT == ">"
EQ == "=="
NEQ == "!="
COMMA == ","
SEMICOLON == ";"
LPAREN == "("
RPAREN == ")"
LBRACE == "{"
RBRACE == "}"
LBRACKET == "["
RBRACKET == "]"
COLON == ":"
FUNCTION == "FUNCTION"
tokLET == "LET"
tokTRUE == "TRUE"
tokFALSE == "FALSE"
tokIF == "IF"
tokELSE == "ELSE"
RETURN == "RETURN"

Token(type, literal) == [Type |-> type, Literal |-> literal]

Keywords ==
    (<<"f", "n">> :> FUNCTION)
    @@ (<<"l", "e", "t">> :> tokLET)
    @@ (<<"t", "r", "u", "e">> :> tokTRUE)
    @@ (<<"f", "a", "l", "s", "e">> :> tokFALSE)
    @@ (<<"i", "f">> :> tokIF)
    @@ (<<"e", "l", "s", "e">> :> tokELSE)
    @@ (<<"r", "e", "t", "u", "r", "n">> :> RETURN)

LookupIdent(ident) ==
    IF ident \in DOMAIN Keywords THEN Keywords[ident] ELSE IDENT

\* ------------------------------------------------------------------------
\* lexer: from the source text to the tokens
\* ------------------------------------------------------------------------

Whitespace == {" ", "\t", "\n", "\r"}

Letters ==
    {"a", "b", "c", "d", "e", "f", "g", "h", "i", "j", "k", "l", "m", "n",
     "o", "p", "q", "r", "s", "t", "u", "v", "w", "x", "y", "z", "_",
     "A", "B", "C", "D", "E", "F", "G", "H", "I", "J", "K", "L", "M", "N",
     "O", "P", "Q", "R", "S", "T", "U", "V", "W", "X", "Y", "Z"}

Digits == {"0", "1", "2", "3", "4", "5", "6", "7", "8", "9"}

\* The punctuation that is a token of one character; its type is its spelling.
Punctuation ==
    {ASSIGN, PLUS, MINUS, ASTERISK, SLASH, BANG, LT, GT, COMMA, SEMICOLON,
     LPAREN, RPAREN, LBRACE, RBRACE, LBRACKET, RBRACKET, COLON}

\* The end of the longest run of characters of a class that starts at i.
RECURSIVE RunEnd(_, _, _)
RunEnd(text, i, class) ==
    IF i + 1 <= Len(text) /\ text[i + 1] \in class
    THEN RunEnd(text, i + 1, class)
    ELSE i

\* The position of the quote that closes the string opened before i, or the
\* end of the text.
RECURSIVE ClosingQuote(_, _)
ClosingQuote(text, i) ==
    IF i > Len(text) \/ text[i] = "\""
    THEN i
    ELSE ClosingQuote(text, i + 1)

\* The tokens of the text from position i on, without the final EOF.
RECURSIVE LexFrom(_, _)
LexFrom(text, i) ==
    IF i > Len(text) THEN <<>>
    ELSE LET ch == text[i] IN
         CASE ch \in Whitespace -> LexFrom(text, i + 1)
           [] ch \in Letters ->
                LET j == RunEnd(text, i, Letters)
                    lexeme == SubSeq(text, i, j)
                IN <<Token(LookupIdent(lexeme), lexeme)>> \o LexFrom(text, j + 1)
           [] ch \in Digits ->
                LET j == RunEnd(text, i, Digits)
                IN <<Token(INT, SubSeq(text, i, j))>> \o LexFrom(text, j + 1)
           [] ch = "\"" ->
                LET j == ClosingQuote(text, i + 1)
                IN <<Token(tokSTRING, SubSeq(text, i + 1, j - 1))>>
                       \o LexFrom(text, j + 1)
           [] ch = "=" /\ i + 1 <= Len(text) /\ text[i + 1] = "=" ->
                <<Token(EQ, <<"=", "=">>)>> \o LexFrom(text, i + 2)
           [] ch = "!" /\ i + 1 <= Len(text) /\ text[i + 1] = "=" ->
                <<Token(NEQ, <<"!", "=">>)>> \o LexFrom(text, i + 2)
           [] OTHER ->
                <<Token(IF ch \in Punctuation THEN ch ELSE ILLEGAL, <<ch>>)>>
                    \o LexFrom(text, i + 1)

Lex(text) == LexFrom(text, 1)

\* NextToken: the i-th token read from the lexer; at the end of the input it
\* is EOF, on every further read too.
NextToken(l, i) == IF i <= Len(l) THEN l[i] ELSE Token(EOF, <<>>)

\* ------------------------------------------------------------------------
\* parser
\* ------------------------------------------------------------------------

LOWEST == 1
EQUALS == 2
LESSGREATER == 3
SUM == 4
PRODUCT == 5
PREFIX == 6
CALL == 7
INDEX == 8

precedences ==
    (EQ :> EQUALS) @@ (NEQ :> EQUALS) @@ (LT :> LESSGREATER)
    @@ (GT :> LESSGREATER) @@ (PLUS :> SUM) @@ (MINUS :> SUM)
    @@ (SLASH :> PRODUCT) @@ (ASTERISK :> PRODUCT) @@ (LPAREN :> CALL)
    @@ (LBRACKET :> INDEX)

\* The token types with a prefix parse function, and those with an infix one.
prefixParseFns ==
    {IDENT, INT, tokSTRING, LBRACKET, tokTRUE, tokFALSE, BANG, MINUS, LPAREN,
     tokIF, FUNCTION, LBRACE}

infixParseFns ==
    {PLUS, MINUS, ASTERISK, SLASH, EQ, NEQ, LT, GT, LPAREN, LBRACKET}

\* A parser over the tokens l: pos tokens have been read from the lexer, the
\* last two of them are peekToken and, before it, curToken. loops records the
\* completed iterations of the parser's loops: the index of the current token
\* when the iteration began and when it ended.
NewParser(l) == [l |-> l, pos |-> 2, errors |-> <<>>, loops |-> <<>>]

curToken(p) == NextToken(p.l, p.pos - 1)
peekToken(p) == NextToken(p.l, p.pos)

nextToken(p) == [p EXCEPT !.pos = @ + 1]

curTokenIs(p, t) == curToken(p).Type = t
peekTokenIs(p, t) == peekToken(p).Type = t

peekError(p, t) ==
    [p EXCEPT !.errors =
        Append(@, [msg |-> "expected next token", want |-> t,
                   got |-> peekToken(p).Type])]

noPrefixParseFnError(p, t) ==
    [p EXCEPT !.errors = Append(@, [msg |-> "no prefix parse function", type |-> t])]

expectPeek(p, t) ==
    IF peekTokenIs(p, t)
    THEN [ok |-> TRUE, p |-> nextToken(p)]
    ELSE [ok |-> FALSE, p |-> peekError(p, t)]

peekPrecedence(p) ==
    IF peekToken(p).Type \in DOMAIN precedences
    THEN precedences[peekToken(p).Type]
    ELSE LOWEST

curPrecedence(p) ==
    IF curToken(p).Type \in DOMAIN precedences
    THEN precedences[curToken(p).Type]
    ELSE LOWEST

\* The index of the current token in the input; the EOF at the end of the
\* input counts once, however often it is read.
TokenIndex(p) == IF p.pos - 1 <= Len(p.l) THEN p.pos - 1 ELSE Len(p.l) + 1

EndIteration(p, loop, from) ==
    [p EXCEPT !.loops = Append(@, [loop |-> loop, from |-> from, to |-> TokenIndex(p)])]

\* A node the parser made, with the token it was made from.
Tokened(tok, node) == [Token |-> tok] @@ node

\* The nil *ast.LetStatement parseLetStatement returns: as an ast.Statement
\* it is an interface value that holds a nil pointer, which is not nil.
NilLetStatement == [node |-> "LetStatement", pointer |-> "nil"]

\* What a parse function returns, and the parser after it.
P(node, p) == [node |-> node, p |-> p]

\* strconv.ParseInt(s, 0, 64) for a lexeme of decimal digits: base 0 takes
\* the base from the prefix, and a leading "0" that is followed by neither b,
\* o nor x makes it 8.
DigitValue ==
    ("0" :> 0) @@ ("1" :> 1) @@ ("2" :> 2) @@ ("3" :> 3) @@ ("4" :> 4)
    @@ ("5" :> 5) @@ ("6" :> 6) @@ ("7" :> 7) @@ ("8" :> 8) @@ ("9" :> 9)

RECURSIVE StripZeros(_)
StripZeros(s) ==
    IF Len(s) > 0 /\ Head(s) = "0" THEN StripZeros(Tail(s)) ELSE s

\* The digits of 1<<63 - 1 in the base.
MaxInt64Digits(base) ==
    IF base = 10
    THEN <<9, 2, 2, 3, 3, 7, 2, 0, 3, 6, 8, 5, 4, 7, 7, 5, 8, 0, 7>>
    ELSE [i \in 1..21 |-> 7]

\* Whether the digits s, without leading zeros, are a number above d.
RECURSIVE DigitsAbove(_, _, _)
DigitsAbove(s, d, i) ==
    IF Len(s) # Len(d) THEN Len(s) > Len(d)
    ELSE IF i > Len(s) THEN FALSE
    ELSE IF DigitValue[s[i]] # d[i] THEN DigitValue[s[i]] > d[i]
    ELSE DigitsAbove(s, d, i + 1)

RECURSIVE DigitsValue(_, _, _)
DigitsValue(s, base, n) ==
    IF s = <<>> THEN n
    ELSE DigitsValue(Tail(s), base, n * base + DigitValue[Head(s)])

ParseInt(s) ==
    LET base == IF Head(s) = "0" THEN 8 ELSE 10
        digits == IF Head(s) = "0" THEN Tail(s) ELSE s
    IN IF \E i \in 1..Len(digits) : DigitValue[digits[i]] >= base
       THEN [err |-> "invalid syntax", value |-> 0]
       ELSE IF DigitsAbove(StripZeros(digits), MaxInt64Digits(base), 1)
       THEN [err |-> "value out of range", value |-> 0]
       ELSE [err |-> "", value |-> DigitsValue(digits, base, 0)]

parseIdentifier(p) ==
    P(Tokened(curToken(p), Identifier(curToken(p).Literal)), p)

parseIntegerLiteral(p) ==
    LET r == ParseInt(curToken(p).Literal)
    IN IF r.err # ""
       THEN P(NoNode,
              [p EXCEPT !.errors =
                  Append(@, [msg |-> "cannot parse as integer",
                             literal |-> curToken(p).Literal])])
       ELSE P(Tokened(curToken(p), IntegerLiteral(r.value)), p)

parseStringLiteral(p) ==
    P(Tokened(curToken(p), StringLiteral(curToken(p).Literal)), p)

parseBoolean(p) ==
    P(Tokened(curToken(p), BooleanLiteral(curTokenIs(p, tokTRUE))), p)

RECURSIVE parseStatement(_)
RECURSIVE parseExpression(_, _)
RECURSIVE parseExpressionFrom(_, _, _)
RECURSIVE parseExpressionListFrom(_, _, _)
RECURSIVE parseBlockStatementFrom(_, _, _)
RECURSIVE parseHashLiteralFrom(_, _, _)

parseLetStatement(p) ==
    LET name == expectPeek(p, IDENT)
    IN IF ~name.ok THEN P(NilLetStatement, name.p)
       ELSE LET assign == expectPeek(name.p, ASSIGN)
            IN IF ~assign.ok THEN P(NilLetStatement, assign.p)
               ELSE LET value == parseExpression(nextToken(assign.p), LOWEST)
                    IN P(Tokened(curToken(p),
                                 LetStatement(curToken(name.p).Literal, value.node)),
                         IF peekTokenIs(value.p, SEMICOLON)
                         THEN nextToken(value.p)
                         ELSE value.p)

parseReturnStatement(p) ==
    LET value == parseExpression(nextToken(p), LOWEST)
    IN P(Tokened(curToken(p), ReturnStatement(value.node)),
         IF peekTokenIs(value.p, SEMICOLON) THEN nextToken(value.p) ELSE value.p)

parseExpressionStatement(p) ==
    LET e == parseExpression(p, LOWEST)
    IN P(Tokened(curToken(p), ExpressionStatement(e.node)),
         IF peekTokenIs(e.p, SEMICOLON) THEN nextToken(e.p) ELSE e.p)

parseStatement(p) ==
    CASE curToken(p).Type = tokLET -> parseLetStatement(p)
      [] curToken(p).Type = RETURN -> parseReturnStatement(p)
      [] OTHER -> parseExpressionStatement(p)

\* parseExpressionList after its first expression: the loop over the commas.
parseExpressionListFrom(p, end, args) ==
    IF peekTokenIs(p, COMMA)
    THEN LET e == parseExpression(nextToken(nextToken(p)), LOWEST)
         IN parseExpressionListFrom(EndIteration(e.p, "comma", TokenIndex(p)),
                                    end, Append(args, e.node))
    ELSE LET close == expectPeek(p, end)
         IN [list |-> IF close.ok THEN args ELSE <<>>, p |-> close.p]

parseExpressionList(p, end) ==
    IF peekTokenIs(p, end)
    THEN [list |-> <<>>, p |-> nextToken(p)]
    ELSE LET e == parseExpression(nextToken(p), LOWEST)
         IN parseExpressionListFrom(e.p, end, <<e.node>>)

parseArrayLiteral(p) ==
    LET elements == parseExpressionList(p, RBRACKET)
    IN P(Tokened(curToken(p), ArrayLiteral(elements.list)), elements.p)

parseIndexExpression(p, leftExpr) ==
    LET index == parseExpression(nextToken(p), LOWEST)
        close == expectPeek(index.p, RBRACKET)
    IN IF ~close.ok THEN P(NoNode, close.p)
       ELSE P(Tokened(curToken(p), IndexExpression(leftExpr, index.node)), close.p)

parseGroupedExpression(p) ==
    LET expr == parseExpression(nextToken(p), LOWEST)
        close == expectPeek(expr.p, RPAREN)
    IN IF ~close.ok THEN P(NoNode, close.p) ELSE P(expr.node, close.p)

\* The loop of parseBlockStatement, after the opening brace was passed.
parseBlockStatementFrom(p, tok, statements) ==
    IF ~curTokenIs(p, RBRACE) /\ ~curTokenIs(p, EOF)
    THEN LET stmt == parseStatement(p)
         IN parseBlockStatementFrom(
                EndIteration(nextToken(stmt.p), "block", TokenIndex(p)), tok,
                IF stmt.node # NoNode THEN Append(statements, stmt.node)
                ELSE statements)
    ELSE P(Tokened(tok, BlockStatement(statements)), p)

parseBlockStatement(p) == parseBlockStatementFrom(nextToken(p), curToken(p), <<>>)

parseIfExpression(p) ==
    LET open == expectPeek(p, LPAREN)
    IN IF ~open.ok THEN P(NoNode, open.p)
       ELSE
       LET cond == parseExpression(nextToken(open.p), LOWEST)
           close == expectPeek(cond.p, RPAREN)
       IN IF ~close.ok THEN P(NoNode, close.p)
          ELSE
          LET brace == expectPeek(close.p, LBRACE)
          IN IF ~brace.ok THEN P(NoNode, brace.p)
             ELSE
             LET cons == parseBlockStatement(brace.p)
             IN IF peekTokenIs(cons.p, tokELSE)
                THEN LET altBrace == expectPeek(nextToken(cons.p), LBRACE)
                     IN IF ~altBrace.ok THEN P(NoNode, altBrace.p)
                        ELSE LET alt == parseBlockStatement(altBrace.p)
                             IN P(Tokened(curToken(p),
                                          IfExpression(cond.node, cons.node, alt.node)),
                                  alt.p)
                ELSE P(Tokened(curToken(p), IfExpression(cond.node, cons.node, NoNode)),
                       cons.p)

\* parseFunctionParameters after its first identifier: the loop over the commas.
RECURSIVE parseFunctionParametersFrom(_, _)
parseFunctionParametersFrom(p, identifiers) ==
    IF peekTokenIs(p, COMMA)
    THEN LET q == nextToken(nextToken(p))
         IN parseFunctionParametersFrom(EndIteration(q, "comma", TokenIndex(p)),
                                        Append(identifiers, curToken(q).Literal))
    ELSE LET close == expectPeek(p, RPAREN)
         IN [list |-> IF close.ok THEN identifiers ELSE <<>>, p |-> close.p]

parseFunctionParameters(p) ==
    IF peekTokenIs(p, RPAREN)
    THEN [list |-> <<>>, p |-> nextToken(p)]
    ELSE LET q == nextToken(p)
         IN parseFunctionParametersFrom(q, <<curToken(q).Literal>>)

parseFunctionLiteral(p) ==
    LET open == expectPeek(p, LPAREN)
    IN IF ~open.ok THEN P(NoNode, open.p)
       ELSE LET parameters == parseFunctionParameters(open.p)
                brace == expectPeek(parameters.p, LBRACE)
            IN IF ~brace.ok THEN P(NoNode, brace.p)
               ELSE LET body == parseBlockStatement(brace.p)
                    IN P(Tokened(curToken(p),
                                 FunctionLiteral(parameters.list, body.node)),
                         body.p)

\* The loop of parseHashLiteral; the pairs are kept in source order.
parseHashLiteralFrom(p, tok, pairs) ==
    IF ~peekTokenIs(p, RBRACE)
    THEN LET key == parseExpression(nextToken(p), LOWEST)
             colon == expectPeek(key.p, COLON)
         IN IF ~colon.ok THEN P(NoNode, colon.p)
            ELSE LET val == parseExpression(nextToken(colon.p), LOWEST)
                 IN IF peekTokenIs(val.p, RBRACE)
                    THEN parseHashLiteralFrom(
                             EndIteration(val.p, "hash", TokenIndex(p)), tok,
                             Append(pairs, <<key.node, val.node>>))
                    ELSE LET comma == expectPeek(val.p, COMMA)
                         IN IF ~comma.ok THEN P(NoNode, comma.p)
                            ELSE parseHashLiteralFrom(
                                     EndIteration(comma.p, "hash", TokenIndex(p)),
                                     tok, Append(pairs, <<key.node, val.node>>))
    ELSE LET close == expectPeek(p, RBRACE)
         IN IF ~close.ok THEN P(NoNode, close.p)
            ELSE P(Tokened(tok, HashLiteral(pairs)), close.p)

parseHashLiteral(p) == parseHashLiteralFrom(p, curToken(p), <<>>)

parsePrefixExpression(p) ==
    LET right == parseExpression(nextToken(p), PREFIX)
    IN P(Tokened(curToken(p), PrefixExpression(curToken(p).Literal, right.node)),
         right.p)

parseInfixExpressionRightAssociative(p, leftExpr) ==
    LET right == parseExpression(nextToken(p), curPrecedence(p) - 1)
    IN P(Tokened(curToken(p),
                 InfixExpression(leftExpr, curToken(p).Literal, right.node)),
         right.p)

parseInfixExpression(p, leftExpr) ==
    LET right == parseExpression(nextToken(p), curPrecedence(p))
    IN P(Tokened(curToken(p),
                 InfixExpression(leftExpr, curToken(p).Literal, right.node)),
         right.p)

parseCallExpression(p, leftExpr) ==
    LET arguments == parseExpressionList(p, RPAREN)
    IN P(Tokened(curToken(p), CallExpression(leftExpr, arguments.list)), arguments.p)

\* The prefix parse function registered for the current token.
prefix(p) ==
    CASE curTokenIs(p, IDENT) -> parseIdentifier(p)
      [] curTokenIs(p, INT) -> parseIntegerLiteral(p)
      [] curTokenIs(p, tokSTRING) -> parseStringLiteral(p)
      [] curTokenIs(p, LBRACKET) -> parseArrayLiteral(p)
      [] curToken(p).Type \in {tokTRUE, tokFALSE} -> parseBoolean(p)
      [] curToken(p).Type \in {BANG, MINUS} -> parsePrefixExpression(p)
      [] curTokenIs(p, LPAREN) -> parseGroupedExpression(p)
      [] curTokenIs(p, tokIF) -> parseIfExpression(p)
      [] curTokenIs(p, FUNCTION) -> parseFunctionLiteral(p)
      [] curTokenIs(p, LBRACE) -> parseHashLiteral(p)

\* The infix parse function registered for the current token.
infix(p, leftExpr) ==
    CASE curTokenIs(p, LPAREN) -> parseCallExpression(p, leftExpr)
      [] curTokenIs(p, LBRACKET) -> parseIndexExpression(p, leftExpr)
      [] OTHER -> parseInfixExpression(p, leftExpr)

\* The loop of parseExpression over the infix operators that follow leftExpr.
parseExpressionFrom(p, precedence, leftExpr) ==
    IF ~peekTokenIs(p, SEMICOLON) /\ precedence < peekPrecedence(p)
    THEN IF peekToken(p).Type \notin infixParseFns
         THEN P(leftExpr, p)
         ELSE LET e == infix(nextToken(p), leftExpr)
              IN parseExpressionFrom(e.p, precedence, e.node)
    ELSE P(leftExpr, p)

parseExpression(p, precedence) ==
    IF curToken(p).Type \notin prefixParseFns
    THEN P(NoNode, noPrefixParseFnError(p, curToken(p).Type))
    ELSE LET leftExpr == prefix(p)
         IN parseExpressionFrom(leftExpr.p, precedence, leftExpr.node)

\* ------------------------------------------------------------------------
\* ast: String()
\* ------------------------------------------------------------------------

\* What String() gives: the text, or ok = FALSE when it dereferences nil and
\* the run aborts.
Text(s) == [ok |-> TRUE, s |-> s]
NilDereference == [ok |-> FALSE, s |-> <<>>]

\* out.WriteString(a) followed by out.WriteString(b).
Write(a, b) ==
    IF ~a.ok THEN a ELSE IF ~b.ok THEN b ELSE Text(a.s \o b.s)

\* strings.Join(elems, ", ")
RECURSIVE Join(_, _)
Join(elems, i) ==
    IF i > Len(elems) THEN Text(<<>>)
    ELSE IF i = Len(elems) THEN elems[i]
    ELSE Write(Write(elems[i], Text(<<",", " ">>)), Join(elems, i + 1))

\* String() of every kind of node but the hash literal, whose pairs it
\* writes in the order of a range over a map; no program of the inputs that
\* are printed holds one.
RECURSIVE NodeString(_)
RECURSIVE StatementsString(_, _)
StatementsString(stmts, i) ==
    IF i > Len(stmts) THEN Text(<<>>)
    ELSE Write(NodeString(stmts[i]), StatementsString(stmts, i + 1))

NodeString(n) ==
    CASE n = NoNode -> NilDereference
      [] n = NilLetStatement -> NilDereference
      [] n.node = "LetStatement" /\ n # NilLetStatement ->
           Write(Write(Text(n.Token.Literal \o <<" ">> \o n.Name \o <<" ", "=", " ">>),
                       IF n.Value # NoNode THEN NodeString(n.Value) ELSE Text(<<>>)),
                 Text(<<";">>))
      [] n.node = "ReturnStatement" ->
           Write(Write(Text(n.Token.Literal \o <<" ">>),
                       IF n.ReturnValue # NoNode
                       THEN NodeString(n.ReturnValue)
                       ELSE Text(<<>>)),
                 Text(<<";">>))
      [] n.node = "ExpressionStatement" ->
           IF n.Expression # NoNode THEN NodeString(n.Expression) ELSE Text(<<>>)
      [] n.node = "BlockStatement" -> StatementsString(n.Statements, 1)
      [] n.node = "Identifier" -> Text(n.Value)
      [] n.node \in {"IntegerLiteral", "StringLiteral", "Boolean"} ->
           Text(n.Token.Literal)
      [] n.node = "ArrayLiteral" ->
           Write(Write(Text(<<"[">>),
                       Join([i \in 1..Len(n.Elements) |-> NodeString(n.Elements[i])], 1)),
                 Text(<<"]">>))
      [] n.node = "IndexExpression" ->
           Write(Write(Write(Write(Text(<<"(">>), NodeString(n.Left)), Text(<<"[">>)),
                       NodeString(n.Index)),
                 Text(<<"]", ")">>))
      [] n.node = "FunctionLiteral" ->
           Write(Write(Write(Write(Text(n.Token.Literal), Text(<<"(">>)),
                             Join([i \in 1..Len(n.Parameters) |-> Text(n.Parameters[i])], 1)),
                       Text(<<")">>)),
                 NodeString(n.Body))
      [] n.node = "IfExpression" ->
           LET head ==
                   Write(Write(Write(Text(<<"i", "f">>), NodeString(n.Condition)),
                               Text(<<" ">>)),
                         NodeString(n.Consequence))
           IN IF n.Alternative # NoNode
              THEN Write(Write(head, Text(<<"e", "l", "s", "e", " ">>)),
                         NodeString(n.Alternative))
              ELSE head
      [] n.node = "CallExpression" ->
           Write(Write(Write(NodeString(n.Function), Text(<<"(">>)),
                       Join([i \in 1..Len(n.Arguments) |-> NodeString(n.Arguments[i])], 1)),
                 Text(<<")">>))
      [] n.node = "PrefixExpression" ->
           Write(Write(Text(<<"(">> \o n.Operator), NodeString(n.Right)), Text(<<")">>))
      [] n.node = "InfixExpression" ->
           Write(Write(Write(Write(Text(<<"(">>), NodeString(n.Left)),
                             Text(<<" ">> \o n.Operator \o <<" ">>)),
                       NodeString(n.Right)),
                 Text(<<")">>))

\* Program.String()
ProgramString(statements) == StatementsString(statements, 1)

\* ------------------------------------------------------------------------
\* The run of evalProgram
\* ------------------------------------------------------------------------

VARIABLES
    pool,    \* the pool the program's statements are drawn from
    prog,    \* the program: its statements' numbers in the pool
    pc,      \* the statement evalProgram's loop is at
    mem,     \* the evaluator's memory
    result,  \* evalProgram's result
    status,  \* "running", "done" (evalProgram returned) or "panic"; of a
             \* run of the parser "parsing", "parsed" or "printed"
    source,  \* the source text the lexer was given
    parser,  \* the parser
    program, \* the statements of the program ParseProgram is building
    printed  \* what String() gave for the programs parsed so far

vars == <<pool, prog, pc, mem, result, status, source, parser, program, printed>>

\* The front end of a run that evaluates a program of a pool is not run.
NoParse ==
    /\ source = <<>>
    /\ parser = NewParser(<<>>)
    /\ program = <<>>
    /\ printed = <<>>

front == <<source, parser, program, printed>>

\* The environment the host hands to Eval with the program.
GlobalEnv == 1

\* The orders a range over a map may take.
Orders ==
    {o \in [1..MaxPairs -> 1..MaxPairs] : \A i, j \in 1..MaxPairs : o[i] = o[j] => i = j}

InitPool(p) ==
    /\ pool = p
    /\ \E n \in 1..MaxStmts : prog \in [1..n -> 1..Len(Pool(p))]
    /\ pc = 1
    /\ mem = NewEnclosedEnvironment(EmptyMemory, 0).m
    /\ result = NIL
    /\ status = "running"
    /\ NoParse

Init == InitPool("control")

\* The statement the loop is at.
Stmt == Pool(pool)[prog[pc]]

\* One iteration of evalProgram's loop: the statement is evaluated and the
\* result is switched on.
evalProgramStep ==
    /\ status = "running"
    /\ pc <= Len(prog)
    /\ \E order \in Orders :
          LET r == Eval(Stmt, GlobalEnv, [mem EXCEPT !.order = order])
          IN /\ mem' = [r.m EXCEPT !.order = <<>>]
             /\ \/ /\ IsPanic(r.val)
                   /\ status' = "panic"
                   /\ result' = r.val
                   /\ pc' = pc
                \/ /\ r.val.type = RETURN_VALUE_OBJ
                   /\ status' = "done"
                   /\ result' = r.m.heap[r.val.ref].Value
                   /\ pc' = pc
                \/ /\ r.val.type = ERROR_OBJ
                   /\ status' = "done"
                   /\ result' = r.val
                   /\ pc' = pc
                \/ /\ r.val.type \notin {"PANIC", RETURN_VALUE_OBJ, ERROR_OBJ}
                   /\ status' = "running"
                   /\ result' = r.val
                   /\ pc' = pc + 1
    /\ UNCHANGED <<pool, prog>>
    /\ UNCHANGED front

\* The loop is over: evalProgram returns the last statement's result.
evalProgramEnd ==
    /\ status = "running"
    /\ pc > Len(prog)
    /\ status' = "done"
    /\ UNCHANGED <<pool, prog, pc, mem, result>>
    /\ UNCHANGED front

Next == evalProgramStep \/ evalProgramEnd

Spec == Init /\ [][Next]_vars

InitClosure == InitPool("closure")

SpecClosure == InitClosure /\ [][Next]_vars

InitHash == InitPool("hash")

SpecHash == InitHash /\ [][Next]_vars

InitArray == InitPool("array")

SpecArray == InitArray /\ [][Next]_vars

InitBuiltin == InitPool("builtin")

SpecBuiltin == InitBuiltin /\ [][Next]_vars

InitScope == InitPool("scope")

SpecScope == InitScope /\ [][Next]_vars

\* The programs of one statement of the infix pool, alone or after let a.
InitInfix ==
    /\ pool = "infix"
    /\ prog \in {<<i>> : i \in 1..Len(InfixPool)}
                \cup {<<1, i>> : i \in 1..Len(InfixPool)}
    /\ pc = 1
    /\ mem = NewEnclosedEnvironment(EmptyMemory, 0).m
    /\ result = NIL
    /\ status = "running"
    /\ NoParse

SpecInfix == InitInfix /\ [][Next]_vars

\* ------------------------------------------------------------------------
\* The run of ParseProgram
\* ------------------------------------------------------------------------

\* The evaluator of a run of the parser is not run.
NoEval ==
    /\ pool = "none"
    /\ prog = <<>>
    /\ pc = 1
    /\ mem = EmptyMemory
    /\ result = NIL

back == <<pool, prog, pc, mem, result>>

\* New(l) on the lexer of a source text.
InitText(texts) ==
    /\ source \in texts
    /\ parser = NewParser(Lex(source))
    /\ program = <<>>
    /\ printed = <<>>
    /\ status = "parsing"
    /\ NoEval

\* ParseProgram's loop without the nextToken that ends each iteration.
ParseProgramStepNoAdvance ==
    /\ status = "parsing"
    /\ ~curTokenIs(parser, EOF)
    /\ LET stmt == parseStatement(parser)
       IN /\ program' = IF stmt.node # NoNode THEN Append(program, stmt.node)
                         ELSE program
          /\ parser' = EndIteration(stmt.p, "program", TokenIndex(parser))
    /\ UNCHANGED <<status, source, printed>>
    /\ UNCHANGED back

\* One iteration of ParseProgram's loop.
ParseProgramStep ==
    /\ status = "parsing"
    /\ ~curTokenIs(parser, EOF)
    /\ LET stmt == parseStatement(parser)
       IN /\ program' = IF stmt.node # NoNode THEN Append(program, stmt.node)
                         ELSE program
          /\ parser' = EndIteration(nextToken(stmt.p), "program", TokenIndex(parser))
    /\ UNCHANGED <<status, source, printed>>
    /\ UNCHANGED back

\* The loop is over: ParseProgram returns the program.
ParseProgramEnd ==
    /\ status = "parsing"
    /\ curTokenIs(parser, EOF)
    /\ status' = "parsed"
    /\ UNCHANGED <<source, parser, program, printed>>
    /\ UNCHANGED back

NextParse == ParseProgramStep \/ ParseProgramEnd

\* The host takes String() of the program that was parsed.
StringProgram ==
    /\ status = "parsed"
    /\ printed' = Append(printed, ProgramString(program))
    /\ status' = "printed"
    /\ UNCHANGED <<source, parser, program>>
    /\ UNCHANGED back

\* The host hands the text String() gave to a new lexer and a new parser.
Reparse ==
    /\ status = "printed"
    /\ Len(printed) = 1
    /\ printed[1].ok
    /\ source' = printed[1].s
    /\ parser' = NewParser(Lex(printed[1].s))
    /\ program' = <<>>
    /\ status' = "parsing"
    /\ UNCHANGED printed
    /\ UNCHANGED back

\* New(l) on a lexer that gives the tokens, and EOF after them.
InitParser(inputs) ==
    /\ source = <<>>
    /\ parser \in {NewParser(l) : l \in inputs}
    /\ program = <<>>
    /\ printed = <<>>
    /\ status = "parsing"
    /\ NoEval

NextString == ParseProgramStep \/ ParseProgramEnd \/ StringProgram \/ Reparse

\* ------------------------------------------------------------------------
\* Properties of return and error propagation
\* ------------------------------------------------------------------------

Trace == mem.trace

IsReturnValue(v) == v.type = RETURN_VALUE_OBJ

\* The array objects of a memory, and the hash objects.
Arrays(m) == {a \in 1..Len(m.heap) : m.heap[a].kind = "Array"}
Hashes(m) == {a \in 1..Len(m.heap) : m.heap[a].kind = "Hash"}

\* C1: evalProgram never returns a ReturnValue object: when the program has
\* been evaluated, its result is not a ReturnValue.
ResultNeverReturnValue == status = "done" => ~IsReturnValue(result)

\* C2: no ReturnValue is observable by the program: no binding of an
\* environment, no element of an array, no key or value of a hash and no
\* operand of a prefix, infix or index operator is a ReturnValue.
ReturnValueNeverObservable ==
    /\ \A e \in 1..Len(mem.envs) : \A n \in DOMAIN mem.envs[e].store :
          ~IsReturnValue(mem.envs[e].store[n])
    /\ \A a \in Arrays(mem) : \A i \in 1..Len(mem.bufs[mem.heap[a].buf]) :
          ~IsReturnValue(mem.bufs[mem.heap[a].buf][i])
    /\ \A h \in Hashes(mem) : \A k \in DOMAIN mem.heap[h].Pairs :
          /\ ~IsReturnValue(mem.heap[h].Pairs[k].Key)
          /\ ~IsReturnValue(mem.heap[h].Pairs[k].Value)
    /\ \A i \in 1..Len(Trace) :
          Trace[i].ev = "operate" =>
              \A k \in 1..Len(Trace[i].operands) : ~IsReturnValue(Trace[i].operands[k])

\* The first return statement executed in the environment e, if any: the
\* place of its record in the trace, or 0.
FirstReturn(e) ==
    LET rs == {i \in 1..Len(Trace) : Trace[i].ev = "return" /\ Trace[i].env = e}
    IN IF rs = {} THEN 0 ELSE CHOOSE i \in rs : \A j \in rs : i <= j

\* C3: once a return statement has executed in a function body or in the
\* program (each call having an environment of its own), no further statement
\* of that body or program is evaluated, and the call's or program's result
\* is the returned value.
ReturnEndsBody ==
    /\ \A i, j \in 1..Len(Trace) :
          (/\ i < j
           /\ Trace[i].ev = "return"
           /\ Trace[j].ev = "enter"
           /\ Trace[j].kind \in StatementNodes)
          => Trace[j].env # Trace[i].env
    /\ \A j \in 1..Len(Trace) :
          (Trace[j].ev = "result" /\ FirstReturn(Trace[j].env) # 0)
          => Trace[j].val = Trace[FirstReturn(Trace[j].env)].val
    /\ (status = "done" /\ FirstReturn(GlobalEnv) # 0)
          => result = Trace[FirstReturn(GlobalEnv)].val

\* C4: once an Error has been produced, nothing more is evaluated and nothing
\* more is bound: all that follows in the trace is each enclosing construct
\* returning that same Error object, which is the program's result.
ErrorShortCircuits ==
    \A i \in 1..Len(Trace) :
        Trace[i].ev = "error" =>
            /\ \A j \in (i + 1)..Len(Trace) :
                  /\ Trace[j].ev \in {"exit", "result"}
                  /\ Trace[j].val = Trace[i].val
            /\ status = "done"
            /\ result = Trace[i].val

\* An Error produced inside a function body, three constructs deep at the
\* least, has ended the program.
ErrorPropagated ==
    /\ status = "done"
    /\ result.type = ERROR_OBJ
    /\ \E i, j \in 1..Len(Trace) :
          /\ i < j
          /\ Trace[i].ev = "error"
          /\ Trace[j].ev = "result"
          /\ Len(Trace) >= j + 2

\* ------------------------------------------------------------------------
\* Properties of function calls and closures
\* ------------------------------------------------------------------------

\* Whether the i-th record of the trace is the evaluation of a function
\* literal to the Function f.
IsLiteralOf(i, f) ==
    /\ Trace[i].ev = "exit"
    /\ Trace[i].kind = "FunctionLiteral"
    /\ Trace[i].val = f

\* let newAdder = fn(x) { fn(y) { x + y } }; let f = newAdder(2); return f(2);
AdderProgram == <<6, 7, 4>>
\* let x = 1; let f = fn(y) { x + y }; fn(x) { f(1, 2) }(50);
ShadowProgram == <<1, 2, 5>>
\* let f = fn(y) { x + y }; let x = 10; return f(2);
LateLetProgram == <<2, 3, 4>>
\* let h = fn(n) { if (n > 0) { h(n - 1) } else { 0 } }; h(2);
RecursiveProgram == <<9, 10>>

\* C5: a call of a Function evaluates the body in an environment created for
\* the call whose outer environment is the one its literal was evaluated in:
\* the free x of f is the definition site's x, not the caller's parameter x,
\* and newAdder's x is read after newAdder has returned.
CallUsesDefinitionEnvironment ==
    /\ \A j \in 1..Len(Trace) :
          Trace[j].ev = "apply" =>
              /\ Trace[j].env > Trace[j].envs
              /\ \E i \in 1..(j - 1) :
                    /\ IsLiteralOf(i, Trace[j].fn)
                    /\ mem.envs[Trace[j].env].outer = Trace[i].env
    /\ (pool = "closure" /\ prog = AdderProgram /\ status = "done")
          => result = Integer(4)
    /\ (pool = "closure" /\ prog = ShadowProgram /\ status = "done")
          => result = Integer(2)

\* newAdder's closure has been called after newAdder returned, and f has
\* been called from a body with a parameter x of its own.
ClosureCalled ==
    /\ pool = "closure"
    /\ status = "done"
    /\ \/ prog = AdderProgram /\ result = Integer(4)
       \/ prog = ShadowProgram /\ result = Integer(2)

\* C6: a Function holds the very environment its literal was evaluated in:
\* a let executed there afterwards is seen by later calls, and the body of h
\* finds h, bound after the literal was evaluated.
FunctionHoldsEnvironment ==
    /\ \A i \in 1..Len(Trace) :
          (Trace[i].ev = "exit" /\ Trace[i].kind = "FunctionLiteral")
          => mem.heap[Trace[i].val.ref].Env = Trace[i].env
    /\ (pool = "closure" /\ prog = LateLetProgram /\ status = "done")
          => result = Integer(12)
    /\ (pool = "closure" /\ prog = RecursiveProgram /\ status = "done")
          => result = Integer(0)

\* A function has been called after a let that followed its creation.
LaterLetSeen ==
    /\ pool = "closure"
    /\ status = "done"
    /\ \/ prog = LateLetProgram /\ result = Integer(12)
       \/ prog = RecursiveProgram /\ result = Integer(0)

\* C10: a call with more or fewer arguments than parameters does not abort
\* the evaluator: binding the parameters never runs out of arguments, and the
\* call goes on to evaluate the body.
ArityMismatchLenient ==
    ~(status = "panic" /\ result = Panic("index out of range"))

\* ------------------------------------------------------------------------
\* Properties of hashes
\* ------------------------------------------------------------------------

\* The order of the source: the pairs as they are written.
SourceOrder == [i \in 1..MaxPairs |-> i]

\* C7: the pairs of a hash literal are evaluated in source order: every
\* statement does what it does with its literals' pairs taken in source
\* order (so of two pairs with the same key the later one's value stays, and
\* of two failing pairs the first one's Error is returned).
HashLiteralInSourceOrder ==
    [][(status = "running" /\ pc <= Len(prog)) =>
          LET r == Eval(Stmt, GlobalEnv, [mem EXCEPT !.order = SourceOrder])
          IN /\ mem'.trace = r.m.trace
             /\ mem'.heap = r.m.heap]_vars

\* C8: two hashable values have the same HashKey exactly when they have the
\* same type and value, so an index lookup returns the value stored under a
\* key equal to the index, or NULL when there is none.
HashKeyInjective ==
    /\ \A i, j \in 1..Len(Trace) :
          (Trace[i].ev = "hashKey" /\ Trace[j].ev = "hashKey")
          => ((Trace[i].key = Trace[j].key) <=> (Trace[i].of = Trace[j].of))
    /\ \A i \in 1..Len(Trace) :
          Trace[i].ev = "lookup" =>
              LET pairs == mem.heap[Trace[i].hash.ref].Pairs
                  same == {k \in DOMAIN pairs : pairs[k].Key = Trace[i].index}
              IN IF same = {} THEN Trace[i].val = NULL
                 ELSE \E k \in same : Trace[i].val = pairs[k].Value

\* ------------------------------------------------------------------------
\* Properties of the array builtins
\* ------------------------------------------------------------------------

ArrayRef(a) == Ref(ARRAY_OBJ, a)

\* Whether the record e is a call push(arr, x) or rest(arr) with arr an Array
\* (for rest, a non-empty one in the memory m).
IsPush(e) ==
    /\ e.ev = "builtin" /\ e.name = "push"
    /\ Len(e.args) = 2 /\ e.args[1].type = ARRAY_OBJ
IsRest(m, e) ==
    /\ e.ev = "builtin" /\ e.name = "rest"
    /\ Len(e.args) = 1 /\ e.args[1].type = ARRAY_OBJ
    /\ Len(Elements(m, e.args[1])) > 0

\* The Array v is another object than arr and shares its buffer with no
\* other Array.
DistinctArray(m, v, arr) ==
    /\ v.type = ARRAY_OBJ
    /\ v # arr
    /\ \A b \in Arrays(m) : b # v.ref => m.heap[b].buf # m.heap[v.ref].buf

\* C9: push and rest leave every existing Array as it was: over a statement,
\* each Array that existed before has the same elements after, and each call
\* of push (of rest on a non-empty array) made in it has returned a distinct
\* Array with a buffer of its own holding arr's elements and then x (arr's
\* elements but the first).
PushRestLeaveArrays ==
    [][/\ \A a \in Arrays(mem) :
             Elements(mem', ArrayRef(a)) = Elements(mem, ArrayRef(a))
       /\ \A i \in (Len(mem.trace) + 1)..Len(mem'.trace) :
             LET e == mem'.trace[i]
             IN /\ IsPush(e) =>
                      /\ DistinctArray(mem', e.val, e.args[1])
                      /\ Elements(mem', e.val)
                            = Append(Elements(mem', e.args[1]), e.args[2])
                /\ IsRest(mem', e) =>
                      /\ DistinctArray(mem', e.val, e.args[1])
                      /\ Elements(mem', e.val) = Tail(Elements(mem', e.args[1]))
      ]_vars

\* let a = [1, 2]; let b = push(a, 3); let b = rest(b);
PushRestProgram == <<1, 2, 5>>

\* push has been called on an Array bound by an earlier statement, and rest
\* on the non-empty Array it returned.
PushAndRestCalled ==
    /\ pool = "array"
    /\ prog = PushRestProgram
    /\ status = "done"
    /\ \E i, j \in 1..Len(Trace) :
          /\ IsPush(Trace[i])
          /\ IsRest(mem, Trace[j])
          /\ Trace[j].args[1] = Trace[i].val

\* ------------------------------------------------------------------------
\* Properties of the parser: precedence
\* ------------------------------------------------------------------------

BinaryOperators == {PLUS, MINUS, ASTERISK, SLASH, LT, GT, EQ, NEQ}

PrefixOperators == {BANG, MINUS}

\* How an operator is written in the source text.
Spelling(op) ==
    CASE op = EQ -> <<"=", "=">>
      [] op = NEQ -> <<"!", "=">>
      [] OTHER -> <<op>>

\* a op1 b op2 c
TwoOperators(op1, op2) ==
    <<"a", " ">> \o Spelling(op1) \o <<" ", "b", " ">> \o Spelling(op2) \o <<" ", "c">>

\* -a op b and !a op b
PrefixThenBinary(pre, op) == <<pre, "a", " ">> \o Spelling(op) \o <<" ", "b">>

\* -a(b) and !a(b)
PrefixThenCall(pre) == <<pre, "a", "(", "b", ")">>

\* -a[b] and !a[b]
PrefixThenIndex(pre) == <<pre, "a", "[", "b", "]">>

PrecedenceTexts ==
    {TwoOperators(op1, op2) : op1 \in BinaryOperators, op2 \in BinaryOperators}
    \cup {PrefixThenBinary(pre, op) : pre \in PrefixOperators, op \in BinaryOperators}
    \cup {PrefixThenCall(pre) : pre \in PrefixOperators}
    \cup {PrefixThenIndex(pre) : pre \in PrefixOperators}

InitPrecedence == InitText(PrecedenceTexts)

SpecPrecedence == InitPrecedence /\ [][NextParse]_vars

IsIdentifier(e, name) == e.node = "Identifier" /\ e.Value = <<name>>

IsInfix(e, op) == e.node = "InfixExpression" /\ e.Token.Type = op

IsPrefix(e, pre) == e.node = "PrefixExpression" /\ e.Operator = <<pre>>

\* The expression of the only statement of the program.
OnlyExpression == program[1].Expression

\* C11: a op1 b op2 c parses as ((a op1 b) op2 c) when the precedence of op2
\* is at most that of op1 and as (a op1 (b op2 c)) otherwise; a prefix
\* operator binds tighter than every binary operator, and call and index
\* bind tighter than a prefix operator.
PrecedenceClimbing ==
    status = "parsed" =>
        /\ parser.errors = <<>>
        /\ Len(program) = 1
        /\ program[1].node = "ExpressionStatement"
        /\ \A op1, op2 \in BinaryOperators :
              source = TwoOperators(op1, op2) =>
                  IF precedences[op2] <= precedences[op1]
                  THEN /\ IsInfix(OnlyExpression, op2)
                       /\ IsInfix(OnlyExpression.Left, op1)
                       /\ IsIdentifier(OnlyExpression.Left.Left, "a")
                       /\ IsIdentifier(OnlyExpression.Left.Right, "b")
                       /\ IsIdentifier(OnlyExpression.Right, "c")
                  ELSE /\ IsInfix(OnlyExpression, op1)
                       /\ IsIdentifier(OnlyExpression.Left, "a")
                       /\ IsInfix(OnlyExpression.Right, op2)
                       /\ IsIdentifier(OnlyExpression.Right.Left, "b")
                       /\ IsIdentifier(OnlyExpression.Right.Right, "c")
        /\ \A pre \in PrefixOperators :
              /\ \A op \in BinaryOperators :
                    source = PrefixThenBinary(pre, op) =>
                        /\ IsInfix(OnlyExpression, op)
                        /\ IsPrefix(OnlyExpression.Left, pre)
                        /\ IsIdentifier(OnlyExpression.Left.Right, "a")
                        /\ IsIdentifier(OnlyExpression.Right, "b")
              /\ source = PrefixThenCall(pre) =>
                    /\ IsPrefix(OnlyExpression, pre)
                    /\ OnlyExpression.Right.node = "CallExpression"
                    /\ IsIdentifier(OnlyExpression.Right.Function, "a")
                    /\ Len(OnlyExpression.Right.Arguments) = 1
                    /\ IsIdentifier(OnlyExpression.Right.Arguments[1], "b")
              /\ source = PrefixThenIndex(pre) =>
                    /\ IsPrefix(OnlyExpression, pre)
                    /\ OnlyExpression.Right.node = "IndexExpression"
                    /\ IsIdentifier(OnlyExpression.Right.Left, "a")
                    /\ IsIdentifier(OnlyExpression.Right.Index, "b")

\* a + b + c and a + b * c were parsed, the one to the left and the other to
\* the right.
PrecedenceParsed ==
    /\ status = "parsed"
    /\ \/ /\ source = TwoOperators(PLUS, PLUS)
          /\ IsInfix(OnlyExpression.Left, PLUS)
       \/ /\ source = TwoOperators(PLUS, ASTERISK)
          /\ IsInfix(OnlyExpression.Right, ASTERISK)

\* ------------------------------------------------------------------------
\* Properties of the parser: String()
\* ------------------------------------------------------------------------

\* Well-formed expressions: an identifier, the literals, prefix, infix, index
\* and call expressions, an array literal, if-expressions and function
\* literals.
SimpleTexts ==
    {<<"a">>,
     <<"5">>,
     <<"t", "r", "u", "e">>,
     <<"\"", "s", "\"">>,
     <<"-", "a">>,
     <<"!", "t", "r", "u", "e">>,
     <<"a", "[", "0", "]">>,
     <<"f", "(", "a", ",", " ", "b", ")">>,
     <<"[", "1", ",", " ", "2", "]">>,
     <<"(", "a", " ", "+", " ", "b", ")">>}

\* if (a) { b }
IfText == <<"i", "f", " ", "(", "a", ")", " ", "{", " ", "b", " ", "}">>

\* if (a < b) { a } else { b }
IfElseText ==
    <<"i", "f", " ", "(", "a", " ", "<", " ", "b", ")", " ", "{", " ", "a", " ", "}",
      " ", "e", "l", "s", "e", " ", "{", " ", "b", " ", "}">>

\* fn(x, y) { x + y }
FunctionText ==
    <<"f", "n", "(", "x", ",", " ", "y", ")", " ", "{", " ", "x", " ", "+", " ", "y",
      " ", "}">>

\* "a b"
SpacedStringText == <<"\"", "a", " ", "b", "\"">>

StringTexts ==
    SimpleTexts
    \cup {x \o <<" ">> \o Spelling(op) \o <<" ">> \o y :
             x \in SimpleTexts, op \in {PLUS, ASTERISK, EQ}, y \in SimpleTexts}
    \cup {IfText, IfElseText, FunctionText, SpacedStringText}

InitString == InitText(StringTexts)

SpecString == InitString /\ [][NextString]_vars

\* C12: the text String() gives for the program parsed from a well-formed
\* expression is parsed without errors, and String() of the program parsed
\* from it is that text again.
RoundTripStable ==
    (status = "printed" /\ Len(printed) = 2) =>
        /\ parser.errors = <<>>
        /\ printed[2] = printed[1]

\* ------------------------------------------------------------------------
\* Properties of the parser: malformed input
\* ------------------------------------------------------------------------

\* The token of a type, with the lexeme a for an identifier and 1 for an
\* integer.
TokenOf(type) ==
    CASE type = IDENT -> Token(IDENT, <<"a">>)
      [] type = INT -> Token(INT, <<"1">>)
      [] type = tokLET -> Token(tokLET, <<"l", "e", "t">>)
      [] type = tokIF -> Token(tokIF, <<"i", "f">>)
      [] type = tokELSE -> Token(tokELSE, <<"e", "l", "s", "e">>)
      [] type = FUNCTION -> Token(FUNCTION, <<"f", "n">>)
      [] type = RETURN -> Token(RETURN, <<"r", "e", "t", "u", "r", "n">>)
      [] OTHER -> Token(type, <<type>>)

Tokens(types) == [i \in 1..Len(types) |-> TokenOf(types[i])]

\* How the constructs with a loop or a required delimiter begin.
Openings ==
    {<<>>,
     <<tokLET>>,
     <<tokLET, IDENT>>,
     <<tokLET, IDENT, ASSIGN>>,
     <<FUNCTION, LPAREN, IDENT>>,
     <<FUNCTION, LPAREN, IDENT, COMMA>>,
     <<FUNCTION, LPAREN, RPAREN, LBRACE>>,
     <<tokIF, LPAREN, IDENT, RPAREN, LBRACE>>,
     <<tokIF, LPAREN, IDENT, RPAREN, LBRACE, RBRACE, tokELSE>>,
     <<LBRACE, IDENT, COLON, INT>>,
     <<LBRACE, IDENT, COLON, INT, COMMA>>,
     <<LBRACKET, INT>>,
     <<LBRACKET, INT, COMMA>>,
     <<IDENT, LPAREN, INT, COMMA>>}

TokenTypes ==
    {IDENT, INT, tokLET, ASSIGN, SEMICOLON, COMMA, COLON, LPAREN, RPAREN, LBRACE,
     RBRACE, LBRACKET, RBRACKET, MINUS, tokIF, tokELSE, FUNCTION, RETURN}

\* An opening followed by at most MaxTokens tokens of any type.
TokenInputs ==
    {Tokens(o \o t) :
        o \in Openings,
        t \in UNION {[1..n -> TokenTypes] : n \in 0..MaxTokens}}

InitTokens == InitParser(TokenInputs)

SpecTokens == InitTokens /\ [][NextParse]_vars

\* The statements of a block of an if-expression or a function literal that
\* is the expression of a statement of the program.
BlocksOf(stmt) ==
    IF stmt = NilLetStatement \/ stmt.node # "ExpressionStatement"
       \/ stmt.Expression = NoNode
    THEN {}
    ELSE CASE stmt.Expression.node = "IfExpression" ->
                {stmt.Expression.Consequence}
                \cup (IF stmt.Expression.Alternative # NoNode
                      THEN {stmt.Expression.Alternative}
                      ELSE {})
           [] stmt.Expression.node = "FunctionLiteral" -> {stmt.Expression.Body}
           [] OTHER -> {}

\* C13: a let statement that lacks its identifier or its = leaves no entry
\* in the statements of the program or of a block, not even a nil
\* LetStatement.
MalformedLetLeavesNoNode ==
    /\ \A i \in 1..Len(program) :
          /\ program[i] # NilLetStatement
          /\ \A b \in BlocksOf(program[i]) :
                \A j \in 1..Len(b.Statements) : b.Statements[j] # NilLetStatement

\* The iterations of the parser's loops that are recorded each moved the
\* current token forward.
EveryIterationConsumes ==
    \A i \in 1..Len(parser.loops) : parser.loops[i].to > parser.loops[i].from

\* The loop of ParseProgram goes on while its condition holds, and
\* ParseProgram returns when it does not: weak fairness of both actions. An
\* iteration always reads a token, so ParseProgramStep is enabled exactly
\* when the condition of the loop holds.
LoopCondition == status = "parsing" /\ ~curTokenIs(parser, EOF)

FairParseProgramStep ==
    \/ []<>(~LoopCondition)
    \/ []<><<ParseProgramStep>>_vars

SpecTokensFair ==
    /\ InitTokens
    /\ [][NextParse]_vars
    /\ FairParseProgramStep
    /\ WF_vars(ParseProgramEnd)

\* C19: ParseProgram terminates on every token sequence: each iteration of
\* the top-level loop, of the block loop, of the hash-literal loop and of the
\* comma loops moves the current token forward, and ParseProgram returns
\* with the current token at EOF.
ParseProgramTerminates ==
    /\ []EveryIterationConsumes
    /\ <>(status = "parsed" /\ curTokenIs(parser, EOF))

\* ParseProgram returned from a malformed input: errors were recorded, and
\* the block loop had gone round.
MalformedParsed ==
    /\ status = "parsed"
    /\ curTokenIs(parser, EOF)
    /\ parser.errors # <<>>
    /\ \E i \in 1..Len(parser.loops) : parser.loops[i].loop = "block"

\* ------------------------------------------------------------------------
\* Properties of the builtins' errors
\* ------------------------------------------------------------------------

CheckedBuiltins == {"len", "first", "last", "rest", "push"}

\* The number of arguments a builtin requires.
Required(name) == IF name = "push" THEN 2 ELSE 1

\* The types of first argument a builtin supports.
Supported(name) == IF name = "len" THEN {STRING_OBJ, ARRAY_OBJ} ELSE {ARRAY_OBJ}

\* The message of an Error value.
MessageOf(v) == mem.heap[v.ref].Message

\* C14: called with the wrong number of arguments, a builtin returns an
\* Error that carries the actual and the required count; called with a first
\* argument of an unsupported type, it returns an Error that names the
\* builtin that was called and the type of the argument.
BuiltinErrorsNameTheCall ==
    \A i \in 1..Len(Trace) :
        (Trace[i].ev = "builtin" /\ Trace[i].name \in CheckedBuiltins) =>
            /\ Len(Trace[i].args) # Required(Trace[i].name) =>
                  /\ Trace[i].val.type = ERROR_OBJ
                  /\ MessageOf(Trace[i].val).kind =
                         (IF Required(Trace[i].name) = 1
                          THEN "wrong number of arguments, want 1"
                          ELSE "wrong number of arguments, want 2")
                  /\ MessageOf(Trace[i].val).n = Len(Trace[i].args)
            /\ (/\ Len(Trace[i].args) = Required(Trace[i].name)
                /\ \/ Trace[i].args[1] = NIL
                   \/ Trace[i].args[1].type \notin Supported(Trace[i].name)) =>
                  /\ Trace[i].val.type = ERROR_OBJ
                  /\ MessageOf(Trace[i].val).kind = "unsupported argument"
                  /\ MessageOf(Trace[i].val).name = Trace[i].name
                  /\ MessageOf(Trace[i].val).args = <<Trace[i].args[1].type>>

\* ------------------------------------------------------------------------
\* Properties of the infix operators
\* ------------------------------------------------------------------------

\* The operands of the operator that was applied last.
LastOperands(t) ==
    t[CHOOSE k \in 1..Len(t) :
          /\ t[k].ev = "operate"
          /\ \A j \in (k + 1)..Len(t) : t[j].ev # "operate"].operands

\* The statement at pc is an infix expression.
AtInfix ==
    /\ pool = "infix"
    /\ status = "running"
    /\ pc <= Len(prog)
    /\ Stmt.node = "ExpressionStatement"

\* The step applied the operator: the operands gave neither an Error nor a
\* crash.
OperatorApplied ==
    \E k \in (Len(mem.trace) + 1)..Len(mem'.trace) : mem'.trace[k].ev = "operate"

BothOf(l, r, t) == l.type = t /\ r.type = t

\* The result a step gives for the operator op applied to l and r.
InfixResultIs(op, l, r) ==
    IF op = "==" THEN result' = nativeBoolToBooleanObject(l = r)
    ELSE IF op = "!=" THEN result' = nativeBoolToBooleanObject(l # r)
    ELSE /\ result'.type = ERROR_OBJ
         /\ mem'.heap[result'.ref].Message.kind =
                (IF l.type # r.type THEN "type mismatch" ELSE "unknown operator")

\* C15: applied to operands that are not both Integer and not both String,
\* == and != give the Boolean of the operands' identity, never an Error; any
\* other operator gives the type mismatch Error when the types differ and the
\* unknown operator Error when they are the same.
InfixOnOtherTypes ==
    [][(AtInfix /\ OperatorApplied) =>
          LET l == LastOperands(mem'.trace)[1]
              r == LastOperands(mem'.trace)[2]
          IN (~BothOf(l, r, INTEGER_OBJ) /\ ~BothOf(l, r, STRING_OBJ)) =>
                 InfixResultIs(Stmt.Expression.Operator, l, r)]_vars

\* ------------------------------------------------------------------------
\* Properties of let and the environment frames
\* ------------------------------------------------------------------------

\* The frames of the calls that are open after the first k events of a
\* trace, the innermost last, above the environment of the program.
RECURSIVE FrameStack(_, _)
FrameStack(t, k) ==
    IF k = 0 THEN <<GlobalEnv>>
    ELSE LET below == FrameStack(t, k - 1)
         IN CASE t[k].ev = "apply" -> Append(below, t[k].env)
              [] t[k].ev = "result" -> SubSeq(below, 1, Len(below) - 1)
              [] OTHER -> below

\* The event k of the trace is the binding a let statement makes.
IsLetBinding(t, k) ==
    /\ t[k].ev = "bind"
    /\ k < Len(t)
    /\ t[k + 1].ev = "exit"
    /\ t[k + 1].kind = "LetStatement"

\* if (true) { let x = 1; } x;
LetInIfProgram == <<1, 2>>

\* let x = 5; let f = fn() { let x = 2; if (true) { let y = x; } y }; f();
LetInFunctionProgram == <<7, 3, 4>>

\* C16: a let binds its name in the frame of the innermost open call, or in
\* the environment of the program when no call is open, also when the let is
\* inside the block of an if-expression; only a call makes a new frame; the
\* binding of a let in an if block is seen after the block, and the lets of
\* a function body leave the environment of the caller as it was.
LetBindsInCurrentFrame ==
    /\ \A k \in 1..Len(Trace) :
          IsLetBinding(Trace, k) =>
              Trace[k].env = FrameStack(Trace, k)[Len(FrameStack(Trace, k))]
    /\ Len(mem.envs) = 1 + Cardinality({k \in 1..Len(Trace) : Trace[k].ev = "apply"})
    /\ (status = "done" /\ prog = LetInIfProgram) => result = Integer(1)
    /\ (status = "done" /\ prog = LetInFunctionProgram) =>
          /\ result = Integer(2)
          /\ EnvGet(mem, GlobalEnv, "x") = [ok |-> TRUE, val |-> Integer(5)]
          /\ ~EnvGet(mem, GlobalEnv, "y").ok

\* if (true) { let x = 1; } x; gave 1.
LetInIfSeen ==
    /\ status = "done"
    /\ prog = LetInIfProgram
    /\ result = Integer(1)
    /\ \E k \in 1..Len(Trace) : IsLetBinding(Trace, k) /\ Trace[k].env = GlobalEnv

\* ------------------------------------------------------------------------
\* Properties of the parser: integer literals
\* ------------------------------------------------------------------------

\* 1<<63 - 1, the number after it, and the two with a zero before them.
MaxInt64Text ==
    <<"9", "2", "2", "3", "3", "7", "2", "0", "3", "6",
      "8", "5", "4", "7", "7", "5", "8", "0", "7">>

AboveInt64Text ==
    <<"9", "2", "2", "3", "3", "7", "2", "0", "3", "6",
      "8", "5", "4", "7", "7", "5", "8", "0", "8">>

\* Every lexeme of at most MaxDigits digits, and the long ones.
IntegerTexts ==
    UNION {[1..n -> Digits] : n \in 1..MaxDigits}
    \cup {AboveInt64Text, <<"0">> \o MaxInt64Text, <<"0">> \o AboveInt64Text}

InitInteger == InitText(IntegerTexts)

SpecInteger == InitInteger /\ [][NextParse]_vars

\* The lexeme denotes, in decimal, a number of the signed 64-bit range.
InInt64Range(s) == ~DigitsAbove(StripZeros(s), MaxInt64Digits(10), 1)

\* The decimal value of a lexeme of few digits.
DecimalValue(s) == DigitsValue(s, 10, 0)

\* C17: an INT token whose lexeme is decimal digits of a number within the
\* signed 64-bit range, leading zeros or not, is parsed without an error
\* into an IntegerLiteral whose Value is the decimal value of the lexeme; a
\* lexeme out of the range records the cannot-parse error and gives no
\* expression.
IntegerLiteralIsDecimal ==
    status = "parsed" =>
        /\ Len(program) = 1
        /\ program[1].node = "ExpressionStatement"
        /\ IF InInt64Range(source)
           THEN /\ parser.errors = <<>>
                /\ program[1].Expression # NoNode
                /\ program[1].Expression.node = "IntegerLiteral"
                /\ Len(source) <= MaxDigits =>
                       program[1].Expression.Value = DecimalValue(source)
           ELSE /\ Len(parser.errors) = 1
                /\ parser.errors[1].msg = "cannot parse as integer"
                /\ program[1].Expression = NoNode

\* ------------------------------------------------------------------------
\* Properties of the empty result
\* ------------------------------------------------------------------------

\* C18: no prefix, infix, index or call operation is applied to the nil
\* result of a let, of an if-expression without a value or of a call of a
\* function with an empty body in a way that dereferences it: no run of the
\* evaluator aborts on a nil dereference.
NilResultNeverDereferenced ==
    ~(status = "panic" /\ result = Panic("nil dereference"))

====
